---------------------------- MODULE Spec2Model ----------------------------
(***************************************************************************)
(* A model of tap-rest-api-msdk: the paginators of pagination.py, the      *)
(* paginator selection and stream construction of streams.py, the record   *)
(* flattening of utils.py, and the request loop that drives them.          *)
(***************************************************************************)
EXTENDS Integers, Sequences, FiniteSets, TLC

(***************************************************************************)
(* JSON values.  Every value is a tagged record, so that values of         *)
(* different JSON types can be compared.  A dict is an ordered sequence of *)
(* <<key, value>> pairs with distinct keys (Python dicts keep insertion    *)
(* order).  A key of a row is a sequence of tokens: a token is either one  *)
(* of the separator characters "-", ".", "_" or a maximal run of other     *)
(* characters, so that Python string equality is sequence equality.        *)
(***************************************************************************)
JNone == [t |-> "none"]
JStr(s) == [t |-> "str", v |-> s]
JInt(n) == [t |-> "int", v |-> n]
JBool(b) == [t |-> "bool", v |-> b]
JList(s) == [t |-> "list", v |-> s]
JDict(s) == [t |-> "dict", v |-> s]

\* Python truthiness of a JSON value (`if x:`, `not x`).
Truthy(x) ==
    CASE x.t = "none" -> FALSE
      [] x.t = "str" -> x.v # ""
      [] x.t = "int" -> x.v # 0
      [] x.t = "bool" -> x.v
      [] x.t = "list" -> Len(x.v) > 0
      [] x.t = "dict" -> Len(x.v) > 0
      [] OTHER -> TRUE

\* `k in d` for a sequence of <<key, value>> pairs.
HasKey(d, k) == \E i \in 1..Len(d) : d[i][1] = k

\* `d[k]` for a sequence of <<key, value>> pairs that has the key.
Lookup(d, k) == d[CHOOSE i \in 1..Len(d) : d[i][1] = k][2]

\* Mutant: a key that is already set keeps its value.
DictSet_first_kept(d, k, v) == IF HasKey(d, k) THEN d ELSE Append(d, <<k, v>>)

\* `d[k] = v`: an existing key keeps its position, a new key is appended.
DictSet(d, k, v) ==
    IF HasKey(d, k)
    THEN [i \in 1..Len(d) |-> IF d[i][1] = k THEN <<k, v>> ELSE d[i]]
    ELSE Append(d, <<k, v>>)

\* The set of keys of a sequence of pairs.
Keys(d) == {d[i][1] : i \in 1..Len(d)}

(***************************************************************************)
(* utils.py                                                                *)
(***************************************************************************)
\* json.dumps(x): a string that holds the serialisation of x.
json_dumps(x) == [t |-> "json", v |-> x]

\* Mutant: only "." is replaced.
t_dashes_kept(s) == [i \in 1..Len(s) |-> IF s[i] = "." THEN "_" ELSE s[i]]

t_dots_kept(s) == [i \in 1..Len(s) |-> IF s[i] = "-" THEN "_" ELSE s[i]]

\* t(s): "-" and "." become "_".
t(s) == [i \in 1..Len(s) |-> IF s[i] \in {"-", "."} THEN "_" ELSE s[i]]

\* Mutant: the trailing "_" of the name is kept.
DropLast_nothing(name) == name

\* name[:-1]
DropLast(name) == SubSeq(name, 1, Len(name) - 1)

RECURSIVE flatten(_, _, _, _)
RECURSIVE flatten_items(_, _, _, _, _)
\* Mutant: an array is stored as it is.
flatten_array_kept(o, exception_keys, name, out) ==
    IF o.t = "dict" THEN flatten_items(o.v, 1, exception_keys, name, out)
    ELSE DictSet(out, t(DropLast(name)), o)

\* The inner flatten(o, exception_keys, name) of flatten_json; `out` is the
\* dictionary it writes into, returned.
flatten(o, exception_keys, name, out) ==
    IF o.t = "dict" THEN flatten_items(o.v, 1, exception_keys, name, out)
    ELSE IF o.t = "list" THEN DictSet(out, t(DropLast(name)), json_dumps(o))
    ELSE DictSet(out, t(DropLast(name)), o)

\* Mutant: a key is excepted by its own name, whatever its path.
flatten_items_own_name(items, i, exception_keys, name, out) ==
    IF i > Len(items) THEN out
    ELSE LET k == items[i][1]
             val == items[i][2]
             out1 == IF k \in exception_keys
                     THEN DictSet(out, t(name \o k), json_dumps(val))
                     ELSE flatten(val, exception_keys, name \o k \o <<"_">>, out)
         IN  flatten_items(items, i + 1, exception_keys, name, out1)

\* The `for k in o` loop of flatten, from the i-th item on.
flatten_items(items, i, exception_keys, name, out) ==
    IF i > Len(items) THEN out
    ELSE LET k == items[i][1]
             val == items[i][2]
             out1 == IF (name \o k) \in exception_keys
                     THEN DictSet(out, t(name \o k), json_dumps(val))
                     ELSE flatten(val, exception_keys, name \o k \o <<"_">>, out)
         IN  flatten_items(items, i + 1, exception_keys, name, out1)

SdcRawJson == <<"_", "sdc", "_", "raw", "_", "json">>

\* Mutant: the raw message is stored serialised.
flatten_json_raw_dumped(obj, except_keys, store_raw_json_message) ==
    LET out == flatten(obj, except_keys, <<>>, <<>>)
    IN  IF store_raw_json_message
        THEN JDict(DictSet(out, SdcRawJson, json_dumps(obj)))
        ELSE JDict(out)

\* flatten_json(obj, except_keys, store_raw_json_message); except_keys is a
\* set of keys (the code only tests membership in the list).
flatten_json(obj, except_keys, store_raw_json_message) ==
    LET out == flatten(obj, except_keys, <<>>, <<>>)
    IN  IF store_raw_json_message
        THEN JDict(DictSet(out, SdcRawJson, obj))
        ELSE JDict(out)

RECURSIVE unnest_items(_, _, _)
\* unnest_dict(d) for the sequence of pairs d: nested dicts are merged into
\* one level, a later key overwriting an earlier one.
unnest_items(items, i, result) ==
    IF i > Len(items) THEN result
    ELSE LET k == items[i][1]
             val == items[i][2]
             r1 == IF val.t = "dict"
                   THEN unnest_items(val.v, 1, result)
                   ELSE DictSet(result, k, val)
         IN  unnest_items(items, i + 1, r1)

unnest_dict(d) == unnest_items(d, 1, <<>>)

(***************************************************************************)
(* Results of calls that may raise.                                        *)
(***************************************************************************)
Ok(x) == [ok |-> TRUE, val |-> x]
Raise(e) == [ok |-> FALSE, err |-> e]

(***************************************************************************)
(* singer_sdk.helpers.jsonpath.extract_jsonpath.  A JSONPath expression is *)
(* held parsed: [t |-> "path", v |-> steps], each step a field name or     *)
(* "*" (every element): "$.next_page" is <<"next_page">> and               *)
(* "$.records[*]" is <<"records", "*">>.                                   *)
(***************************************************************************)
JPath(steps) == [t |-> "path", v |-> steps]

RECURSIVE extract_steps(_, _, _)
RECURSIVE extract_each(_, _, _, _)
\* The sequence of matches of steps[i..] below value x.
extract_steps(steps, i, x) ==
    IF i > Len(steps) THEN <<x>>
    ELSE IF steps[i] = "*"
         THEN IF x.t = "list" THEN extract_each(steps, i + 1, x.v, 1)
              ELSE IF x.t = "dict"
                   THEN extract_each(steps, i + 1, [j \in 1..Len(x.v) |-> x.v[j][2]], 1)
                   ELSE <<>>
         ELSE IF x.t = "dict" /\ HasKey(x.v, steps[i])
              THEN extract_steps(steps, i + 1, Lookup(x.v, steps[i]))
              ELSE <<>>

extract_each(steps, i, elems, j) ==
    IF j > Len(elems) THEN <<>>
    ELSE extract_steps(steps, i, elems[j]) \o extract_each(steps, i, elems, j + 1)

extract_jsonpath(path, input) == extract_steps(path.v, 1, input)

\* next(extract_jsonpath(path, input), None)
first_match(path, input) ==
    LET m == extract_jsonpath(path, input)
    IN  IF Len(m) > 0 THEN m[1] ELSE JNone

\* dict.get(key, default) on a JSON value; a list has no `get`.
py_get(x, key, default) ==
    IF x.t = "dict"
    THEN Ok(IF HasKey(x.v, key) THEN Lookup(x.v, key) ELSE default)
    ELSE Raise("AttributeError")

\* len(x) of a JSON body.
py_len(x) == IF x.t \in {"list", "dict"} THEN Len(x.v) ELSE 0

(***************************************************************************)
(* Dates.  dateutil.parser.parse maps a date string to a point in time;    *)
(* the strings of DateStrings are in increasing time order.                *)
(***************************************************************************)
DateStrings == <<"2021-01-01", "2022-01-01", "2023-01-01">>

IsDate(x) == x.t = "str" /\ \E i \in 1..Len(DateStrings) : DateStrings[i] = x.v

parse(x) == CHOOSE i \in 1..Len(DateStrings) : DateStrings[i] = x.v

(***************************************************************************)
(* pagination.py                                                           *)
(***************************************************************************)
DefaultPaginationPageSize == 25

\* RestAPIBasePageNumberPaginator.has_more: the raw value found.
RestAPIBasePageNumberPaginator_has_more(p, response) ==
    IF Truthy(p.jsonpath)
    THEN Ok(first_match(p.jsonpath, response.body))
    ELSE py_get(response.body, "hasMore", JNone)

\* pagination["offset"] + pagination["limit"] <= record_limit
OffsetCompare(pagination, record_limit) ==
    LET o == Lookup(pagination, "offset")
        l == Lookup(pagination, "limit")
    IN  IF o.t = "int" /\ l.t = "int" /\ record_limit.t = "int"
        THEN Ok(o.v + l.v <= record_limit.v)
        ELSE Raise("TypeError")

\* RestAPIOffsetPaginator.has_more
RestAPIOffsetPaginator_has_more(p, response) ==
    LET found == IF Truthy(p.jsonpath)
                 THEN Ok(first_match(p.jsonpath, response.body))
                 ELSE py_get(response.body, "pagination", JNone)
    IN  IF ~found.ok THEN found
        ELSE IF Truthy(found.val) /\ found.val.t # "dict" THEN Raise("AttributeError")
        ELSE LET pagination == IF Truthy(found.val) THEN unnest_dict(found.val.v) ELSE <<>>
             IN  IF Len(pagination) > 0 /\ HasKey(pagination, "offset")
                                        /\ HasKey(pagination, "limit")
                 THEN LET record_limit ==
                              IF HasKey(pagination, p.pagination_total_limit_param)
                              THEN Lookup(pagination, p.pagination_total_limit_param)
                              ELSE JInt(0)
                      IN  OffsetCompare(pagination, record_limit)
                 ELSE Ok(FALSE)

\* SimpleOffsetPaginator.has_more
SimpleOffsetPaginator_has_more(p, response) ==
    Ok(py_len(response.body) = p.pagination_page_size)

\* results[-1]["commit"]["committer"]["date"]
CommitDate(last) ==
    LET commit == IF HasKey(last.v, <<"commit">>) THEN Lookup(last.v, <<"commit">>) ELSE JNone
        committer == IF commit.t = "dict" /\ HasKey(commit.v, <<"committer">>)
                     THEN Lookup(commit.v, <<"committer">>) ELSE JNone
    IN  IF committer.t = "dict" /\ HasKey(committer.v, <<"date">>)
        THEN Ok(Lookup(committer.v, <<"date">>))
        ELSE Raise("KeyError")

\* The replication_date of the last result, or the error raised reading it.
ReplicationDate(p, results) ==
    LET last == results[Len(results)]
    IN  IF last.t # "dict" THEN Raise("TypeError")
        ELSE IF p.replication_key # <<"commit", "_", "timestamp">>
        THEN IF HasKey(last.v, p.replication_key)
             THEN Ok(Lookup(last.v, p.replication_key))
             ELSE Raise("KeyError")
        ELSE CommitDate(last)

\* Mutant: the comparison of the dates turned around.
FakeSinceExit_reversed(p, response, results) ==
    LET since == IF HasKey(response.request, "fake_since")
                 THEN Lookup(response.request, "fake_since")
                 ELSE JStr("")
        direction == IF HasKey(response.request, "direction")
                     THEN Lookup(response.request, "direction")
                     ELSE JNone
        date == ReplicationDate(p, results)
    IN  IF ~date.ok THEN date
        ELSE IF Truthy(since) /\ direction = JStr("desc")
        THEN IF IsDate(date.val) /\ IsDate(since)
             THEN Ok(parse(date.val) > parse(since))
             ELSE Raise("ParserError")
        ELSE Ok(FALSE)

\* The exit of the fake-since workaround: TRUE to stop, or the error raised.
\* response.request holds the parsed query of the request URL.
FakeSinceExit(p, response, results) ==
    LET since == IF HasKey(response.request, "fake_since")
                 THEN Lookup(response.request, "fake_since")
                 ELSE JStr("")
        direction == IF HasKey(response.request, "direction")
                     THEN Lookup(response.request, "direction")
                     ELSE JNone
        date == ReplicationDate(p, results)
    IN  IF ~date.ok THEN date
        ELSE IF Truthy(since) /\ direction = JStr("desc")
        THEN IF IsDate(date.val) /\ IsDate(since)
             THEN Ok(parse(date.val) < parse(since))
             ELSE Raise("ParserError")
        ELSE Ok(FALSE)

\* The results list get_next_url looks at.
ResultsOf(body) ==
    IF body.t = "list" THEN body
    ELSE IF HasKey(body.v, "items") THEN Lookup(body.v, "items")
    ELSE JNone

\* response.links.get("next", {}).get("url")
NextLinkUrl(response) ==
    IF HasKey(response.links, "next") /\ HasKey(Lookup(response.links, "next"), "url")
    THEN Lookup(Lookup(response.links, "next"), "url")
    ELSE JNone

\* RestAPIHeaderLinkPaginator.get_next_url: the query string, or JNone.
RestAPIHeaderLinkPaginator_get_next_url(p, response) ==
    IF /\ p.page_count # 0
       /\ Truthy(p.pagination_results_limit)
       /\ p.page_count * p.pagination_page_size >= p.pagination_results_limit.v
    THEN Ok(JNone)
    ELSE IF ~HasKey(response.links, "next") THEN Ok(JNone)
    ELSE IF ~Truthy(NextLinkUrl(response)) THEN Ok(JNone)
    ELSE LET results == ResultsOf(response.body)
         IN  IF ~Truthy(results) THEN Ok(JNone)
             ELSE LET stop == IF Len(p.replication_key) > 0 /\ p.use_fake_since_parameter
                              THEN FakeSinceExit(p, response, results.v)
                              ELSE Ok(FALSE)
                      query == NextLinkUrl(response).query
                  IN  IF ~stop.ok THEN stop
                      ELSE IF stop.val THEN Ok(JNone)
                      ELSE IF query # "" THEN Ok(JStr(query))
                      ELSE Ok(JNone)

(***************************************************************************)
(* The paginator objects.  A paginator is a record of the fields of        *)
(* BaseAPIPaginator (value, page_count, finished) and of the subclasses.   *)
(***************************************************************************)
\* BaseAPIPaginator.__init__(start_value), with the subclass fields unset.
BaseAPIPaginator(kind, start_value) ==
    [kind |-> kind, value |-> start_value, page_count |-> 0, finished |-> FALSE,
     jsonpath |-> JNone, key |-> "", page_size |-> JNone,
     pagination_page_size |-> DefaultPaginationPageSize,
     pagination_results_limit |-> JNone, use_fake_since_parameter |-> FALSE,
     replication_key |-> <<>>, pagination_total_limit_param |-> ""]

\* JSONPathPaginator(jsonpath)
JSONPathPaginator(jsonpath) ==
    [BaseAPIPaginator("JSONPathPaginator", JNone) EXCEPT !.jsonpath = jsonpath]

\* SimpleHeaderPaginator(key)
SimpleHeaderPaginator(key) ==
    [BaseAPIPaginator("SimpleHeaderPaginator", JNone) EXCEPT !.key = key]

HeaderLinkPaginator == BaseAPIPaginator("HeaderLinkPaginator", JNone)

SinglePagePaginator == BaseAPIPaginator("SinglePagePaginator", JNone)

\* RestAPIHeaderLinkPaginator.__init__
RestAPIHeaderLinkPaginator(pagination_page_size, pagination_results_limit, use_fake_since_parameter, replication_key) ==
    [BaseAPIPaginator("RestAPIHeaderLinkPaginator", JNone) EXCEPT
        !.pagination_page_size = pagination_page_size,
        !.pagination_results_limit = pagination_results_limit,
        !.use_fake_since_parameter = use_fake_since_parameter,
        !.replication_key = replication_key]

\* RestAPIOffsetPaginator.__init__
RestAPIOffsetPaginator(start_value, page_size, jsonpath, pagination_total_limit_param) ==
    [BaseAPIPaginator("RestAPIOffsetPaginator", JInt(start_value)) EXCEPT
        !.page_size = page_size,
        !.jsonpath = jsonpath,
        !.pagination_total_limit_param = pagination_total_limit_param]

\* SimpleOffsetPaginator.__init__(start_value, page_size, pagination_page_size)
SimpleOffsetPaginator(start_value, page_size, pagination_page_size) ==
    [BaseAPIPaginator("SimpleOffsetPaginator", JInt(start_value)) EXCEPT
        !.page_size = page_size,
        !.pagination_page_size = pagination_page_size]

\* RestAPIBasePageNumberPaginator.__init__(start_value, jsonpath)
RestAPIBasePageNumberPaginator(start_value, jsonpath) ==
    [BaseAPIPaginator("RestAPIBasePageNumberPaginator", JInt(start_value)) EXCEPT
        !.jsonpath = jsonpath]

\* urllib.parse.urlparse of a URL, or of a bare query string (all of it is
\* the path then).
urlparse(u) ==
    IF u.t = "url" THEN [t |-> "ParseResult", path |-> u.path, query |-> u.query]
    ELSE [t |-> "ParseResult", path |-> u.v, query |-> ""]

\* has_more of the paginator's class: the value `advance` tests.
has_more(p, response) ==
    CASE p.kind = "RestAPIBasePageNumberPaginator" ->
            RestAPIBasePageNumberPaginator_has_more(p, response)
      [] p.kind = "RestAPIOffsetPaginator" ->
            LET r == RestAPIOffsetPaginator_has_more(p, response)
            IN  IF r.ok THEN Ok(JBool(r.val)) ELSE r
      [] p.kind = "SimpleOffsetPaginator" ->
            LET r == SimpleOffsetPaginator_has_more(p, response)
            IN  IF r.ok THEN Ok(JBool(r.val)) ELSE r
      [] OTHER -> Ok(JBool(TRUE))

\* BaseOffsetPaginator.get_next: self._value + self._page_size
BaseOffsetPaginator_get_next(p) ==
    IF p.page_size.t = "int" THEN Ok(JInt(p.value.v + p.page_size.v))
    ELSE Raise("TypeError")

\* BaseHATEOASPaginator.get_next
BaseHATEOASPaginator_get_next(next_url) ==
    IF ~next_url.ok THEN next_url
    ELSE IF Truthy(next_url.val) THEN Ok(urlparse(next_url.val))
    ELSE Ok(JNone)

\* get_next of the paginator's class.
get_next(p, response) ==
    CASE p.kind = "JSONPathPaginator" -> Ok(first_match(p.jsonpath, response.body))
      [] p.kind = "SimpleHeaderPaginator" ->
            Ok(IF HasKey(response.headers, p.key)
               THEN Lookup(response.headers, p.key) ELSE JNone)
      [] p.kind = "HeaderLinkPaginator" ->
            BaseHATEOASPaginator_get_next(Ok(NextLinkUrl(response)))
      [] p.kind = "RestAPIHeaderLinkPaginator" ->
            BaseHATEOASPaginator_get_next(RestAPIHeaderLinkPaginator_get_next_url(p, response))
      [] p.kind \in {"RestAPIOffsetPaginator", "SimpleOffsetPaginator"} ->
            BaseOffsetPaginator_get_next(p)
      [] p.kind = "RestAPIBasePageNumberPaginator" -> Ok(JInt(p.value.v + 1))
      [] OTHER -> Ok(JNone)

\* BaseAPIPaginator.advance: the paginator after the call and the error
\* raised, "none" when it returns.
advance(p, response) ==
    LET p1 == [p EXCEPT !.page_count = p.page_count + 1]
        more == has_more(p1, response)
        new_value == get_next(p1, response)
    IN  IF ~more.ok THEN [p |-> p1, err |-> more.err]
        ELSE IF ~Truthy(more.val) THEN [p |-> [p1 EXCEPT !.finished = TRUE], err |-> "none"]
        ELSE IF ~new_value.ok THEN [p |-> p1, err |-> new_value.err]
        ELSE IF Truthy(new_value.val) /\ new_value.val = p1.value
             THEN [p |-> p1, err |-> "RuntimeError"]
        ELSE IF ~Truthy(new_value.val)
             THEN [p |-> [p1 EXCEPT !.finished = TRUE], err |-> "none"]
        ELSE [p |-> [p1 EXCEPT !.value = new_value.val], err |-> "none"]

(***************************************************************************)
(* streams.py: DynamicStream                                               *)
(***************************************************************************)
\* int(self.params.get(page_limit_param, 25))
PageSizeFromParams(params, page_limit_param) ==
    IF HasKey(params, page_limit_param)
    THEN Lookup(params, page_limit_param)
    ELSE JInt(DefaultPaginationPageSize)

\* Mutant: the default path misnamed.
NextPageTokenJsonpath_misnamed(config) ==
    IF Truthy(config.next_page_token_path) THEN config.next_page_token_path
    ELSE IF config.pagination_request_style = "jsonpath_paginator"
            \/ config.pagination_request_style = "default"
         THEN JPath(<<"next">>)
         ELSE JNone

\* DynamicStream.__init__: next_page_token_jsonpath; without a configured
\* path and outside the two JSONPath styles the class attribute None stands.
NextPageTokenJsonpath(config) ==
    IF Truthy(config.next_page_token_path) THEN config.next_page_token_path
    ELSE IF config.pagination_request_style = "jsonpath_paginator"
            \/ config.pagination_request_style = "default"
         THEN JPath(<<"next_page">>)
         ELSE JNone

\* DynamicStream.__init__: the attributes of the stream built from the
\* resolved configuration.
DynamicStream(config) ==
    LET style == config.pagination_request_style
        limit_param == config.pagination_limit_per_page_param
    IN  [pagination_request_style |-> style,
         next_page_token_jsonpath |-> NextPageTokenJsonpath(config),
         pagination_page_size |->
            IF style = "restapi_header_link_paginator"
            THEN IF Truthy(config.pagination_page_size) THEN config.pagination_page_size
                 ELSE PageSizeFromParams(config.params,
                        IF Truthy(limit_param) THEN limit_param.v ELSE "per_page")
            ELSE IF style = "style1" \/ style = "offset_paginator"
            THEN IF Truthy(config.pagination_page_size) THEN config.pagination_page_size
                 ELSE PageSizeFromParams(config.params,
                        IF Truthy(limit_param) THEN limit_param.v ELSE "limit")
            ELSE config.pagination_page_size,
         pagination_results_limit |-> config.pagination_results_limit,
         pagination_total_limit_param |-> config.pagination_total_limit_param,
         pagination_initial_offset |-> config.pagination_initial_offset,
         replication_key |-> config.replication_key,
         records_path |-> config.records_path,
         except_keys |-> config.except_keys,
         store_raw_json_message |-> config.store_raw_json_message,
         params |-> config.params,
         backoff_type |-> config.backoff_type,
         backoff_param |-> config.backoff_param,
         backoff_time_extension |-> config.backoff_time_extension,
         use_fake_since_parameter |-> FALSE]

\* The pagination_page_size keyword of SimpleOffsetPaginator as
\* get_new_paginator passes it: it is not passed, so the default stands.
SimpleOffsetPageSizeArg(self) == DefaultPaginationPageSize

\* Mutant: the default style reads the X-Next-Page header.
DefaultStylePaginator_header(self) == SimpleHeaderPaginator("X-Next-Page")

\* The paginator of the default and jsonpath_paginator styles.
DefaultStylePaginator(self) == JSONPathPaginator(self.next_page_token_jsonpath)

\* The paginator of the style1 and offset_paginator styles.
OffsetStylePaginator(self) ==
    RestAPIOffsetPaginator(self.pagination_initial_offset, self.pagination_page_size,
                           self.next_page_token_jsonpath,
                           self.pagination_total_limit_param)

\* Mutant: the results limit is not handed to the paginator.
HeaderLinkStylePaginator_nolimit(self) ==
    RestAPIHeaderLinkPaginator(self.pagination_page_size.v, JNone, FALSE,
                               self.replication_key)

\* The paginator of the restapi_header_link_paginator style.
HeaderLinkStylePaginator(self) ==
    RestAPIHeaderLinkPaginator(self.pagination_page_size.v, self.pagination_results_limit,
                               FALSE, self.replication_key)

\* The paginator of the page_number_paginator style: the class is built
\* without the start_value BaseAPIPaginator.__init__ requires.
PageNumberStylePaginator(self) == Raise("TypeError")

\* DynamicStream.get_new_paginator: the paginator, or the error raised.
get_new_paginator(self) ==
    LET style == self.pagination_request_style
    IN  CASE style = "jsonpath_paginator" \/ style = "default" ->
                Ok(DefaultStylePaginator(self))
          [] style = "simple_header_paginator" ->
                IF Truthy(self.next_page_token_jsonpath)
                THEN Ok(JSONPathPaginator(self.next_page_token_jsonpath))
                ELSE Ok(SimpleHeaderPaginator("X-Next-Page"))
          [] style = "header_link_paginator" -> Ok(HeaderLinkPaginator)
          [] style = "restapi_header_link_paginator" -> Ok(HeaderLinkStylePaginator(self))
          [] style = "style1" \/ style = "offset_paginator" -> Ok(OffsetStylePaginator(self))
          [] style = "hateoas_paginator" -> Raise("TypeError")
          [] style = "single_page_paginator" -> Ok(SinglePagePaginator)
          [] style = "page_number_paginator" -> PageNumberStylePaginator(self)
          [] style = "simple_offset_paginator" ->
                Ok(SimpleOffsetPaginator(self.pagination_initial_offset,
                                         self.pagination_page_size,
                                         SimpleOffsetPageSizeArg(self)))
          [] OTHER -> Raise("ValueError")

\* DynamicStream.parse_response: the rows at records_path, in order.
parse_response(self, response) == extract_jsonpath(self.records_path, response.body)

\* DynamicStream.post_process
post_process(self, row) == flatten_json(row, self.except_keys, self.store_raw_json_message)

\* The rows one page yields through get_records, in order.
RECURSIVE PostProcessAll(_, _, _)
PostProcessAll(self, rows, i) ==
    IF i > Len(rows) THEN <<>>
    ELSE <<post_process(self, rows[i])>> \o PostProcessAll(self, rows, i + 1)

(***************************************************************************)
(* The inputs: configurations, rows and server responses.                  *)
(***************************************************************************)
MaxRequests == 3

UpdatedAt == <<"updated", "_", "at">>
CommitTimestamp == <<"commit", "_", "timestamp">>

RowA == JDict(<< <<<<"id">>, JInt(1)>> >>)
RowB == JDict(<< <<<<"a", "-", "b">>, JDict(<< <<<<"c">>, JInt(2)>> >>)>>,
                 <<<<"d">>, JList(<<JInt(1)>>)>> >>)
RowDated(i) == JDict(<< <<UpdatedAt, JStr(DateStrings[i])>> >>)
RowCommit(i) ==
    JDict(<< <<<<"commit">>,
               JDict(<< <<<<"committer">>,
                          JDict(<< <<<<"date">>, JStr(DateStrings[i])>> >>)>> >>)>> >>)

RowLists == {<<>>, <<RowB>>, <<RowA, RowB>>}

\* A response: the JSON body, the headers, the parsed Link header and the
\* parsed query of the request that produced it.
Resp(body, headers, links, request) ==
    [body |-> body, headers |-> headers, links |-> links, request |-> request]

NoResponse == Resp(JNone, <<>>, <<>>, <<>>)

Opt(key, values) == {<<>>} \cup {<< <<key, x>> >> : x \in values}

RecordsBody(rows, extras) == JDict(<< <<"records", JList(rows)>> >> \o extras)

\* Responses of a token API: a next_page token, a token under `cursor`, an
\* X-Next-Page header, each present or not.
TokenResponses ==
    {Resp(RecordsBody(rows, np \o cur), hd, <<>>, <<>>) :
        rows \in RowLists,
        np \in Opt("next_page", {JStr("t1"), JStr("t2")}),
        cur \in Opt("cursor", {JStr("c1")}),
        hd \in Opt("X-Next-Page", {JStr("h1")})}

\* Pagination objects of an offset API: complete, incomplete, nested,
\* and of another shape than an object.
PaginationObjects ==
    {JDict(<< <<"offset", JInt(o)>>, <<"limit", JInt(l)>> >> \o tot) :
        o \in {0, 1, 5}, l \in {0, 1},
        tot \in Opt("total", {JInt(0), JInt(2)}) \cup Opt("count", {JInt(2)})}
    \cup {JDict(<< <<"limit", JInt(1)>>, <<"total", JInt(2)>> >>),
          JDict(<< <<"offset", JInt(1)>>, <<"total", JInt(2)>> >>),
          JDict(<< <<"meta", JDict(<< <<"offset", JInt(1)>>, <<"limit", JInt(1)>> >>)>>,
                   <<"total", JInt(2)>> >>),
          JDict(<<>>), JNone, JStr("page 1 of 2"), JList(<<JInt(1), JInt(2)>>)}

OffsetResponses ==
    {Resp(RecordsBody(rows, pg), <<>>, <<>>, <<>>) :
        rows \in {<<>>, <<RowA, RowB>>},
        pg \in {<<>>} \cup {<< <<k, x>> >> : k \in {"pagination", "paging"},
                                             x \in PaginationObjects}}

\* Responses of an API answering with a bare list of n rows, or with an
\* object holding the list.
RowsOfLen(n) == [i \in 1..n |-> IF i % 2 = 1 THEN RowA ELSE RowB]

ListResponses ==
    {Resp(JList(RowsOfLen(n)), <<>>, <<>>, <<>>) : n \in {0, 1, 2, DefaultPaginationPageSize}}
    \cup {Resp(RecordsBody(rows, <<>>), <<>>, <<>>, <<>>) : rows \in RowLists}

Url(path, query) == [t |-> "url", path |-> path, query |-> query]

LinkOpts ==
    {<<>>,
     << <<"prev", << <<"url", Url("/items", "page=1")>> >> >> >>,
     << <<"next", << <<"rel", JStr("next")>> >> >> >>,
     << <<"next", << <<"url", JStr("")>> >> >> >>,
     << <<"next", << <<"url", Url("/items", "")>> >> >> >>,
     << <<"next", << <<"url", Url("/items", "page=2")>> >> >> >>,
     << <<"next", << <<"url", Url("/items", "page=3")>> >> >> >>}

LinkResponses ==
    {Resp(JList(rows), <<>>, links, <<>>) : rows \in RowLists, links \in LinkOpts}

\* The responses the server of a stream may give.
ResponsesFor(self) ==
    LET style == self.pagination_request_style
    IN  CASE style \in {"style1", "offset_paginator"} -> OffsetResponses
          [] style = "simple_offset_paginator" -> ListResponses
          [] style \in {"header_link_paginator", "restapi_header_link_paginator"} ->
                LinkResponses
          [] OTHER -> TokenResponses

BaseConfig ==
    [pagination_request_style |-> "default",
     next_page_token_path |-> JNone,
     pagination_page_size |-> JNone,
     pagination_results_limit |-> JNone,
     pagination_limit_per_page_param |-> JNone,
     params |-> <<>>,
     pagination_total_limit_param |-> "total",
     pagination_initial_offset |-> 1,
     replication_key |-> <<>>,
     records_path |-> JPath(<<"records", "*">>),
     except_keys |-> {},
     store_raw_json_message |-> FALSE,
     backoff_type |-> JNone,
     backoff_param |-> "Retry-After",
     backoff_time_extension |-> 0]

PageSizes == {JNone, JInt(1), JInt(2)}

TokenConfigs ==
    {[BaseConfig EXCEPT !.pagination_request_style = st, !.next_page_token_path = np,
                        !.store_raw_json_message = raw] :
        st \in {"default", "jsonpath_paginator", "simple_header_paginator",
                "single_page_paginator", "page_number_paginator", "hateoas_paginator",
                "cursor_paginator"},
        np \in {JNone, JPath(<<"cursor">>)},
        raw \in BOOLEAN}

\* A configuration that sets the page size and also names one in the static
\* params or renames the page size parameter: left out, the page size
\* configured wins.
SizedTwice(c) ==
    Truthy(c.pagination_page_size)
        /\ (c.params # <<>> \/ c.pagination_limit_per_page_param # JNone)

OffsetConfigs ==
    {c \in {[BaseConfig EXCEPT !.pagination_request_style = st,
                               !.next_page_token_path = np,
                               !.pagination_page_size = ps,
                               !.pagination_initial_offset = io,
                               !.pagination_total_limit_param = tp, !.params = pr] :
                st \in {"style1", "offset_paginator"},
                np \in {JNone, JPath(<<"paging">>)},
                ps \in PageSizes, io \in {0, 1}, tp \in {"total", "count"},
                pr \in Opt("limit", {JInt(5)})} : ~SizedTwice(c)}

SimpleOffsetConfigs ==
    {[BaseConfig EXCEPT !.pagination_request_style = "simple_offset_paginator",
                        !.pagination_page_size = ps, !.pagination_initial_offset = io,
                        !.records_path = rp] :
        ps \in PageSizes \cup {JInt(DefaultPaginationPageSize)}, io \in {0, 1},
        rp \in {JPath(<<"*">>), JPath(<<"records", "*">>)}}

HeaderLinkConfigs ==
    {c \in {[BaseConfig EXCEPT !.pagination_request_style = st,
                               !.pagination_page_size = ps,
                               !.pagination_results_limit = rl,
                               !.pagination_limit_per_page_param = lp, !.params = pr,
                               !.replication_key = UpdatedAt,
                               !.records_path = JPath(<<"*">>)] :
                st \in {"header_link_paginator", "restapi_header_link_paginator"},
                ps \in PageSizes, rl \in {JNone, JInt(1), JInt(2), JInt(3)},
                lp \in {JNone, JStr("size")},
                pr \in Opt("per_page", {JInt(2)}) \cup Opt("size", {JInt(1)})} :
        ~SizedTwice(c)}

Configs == TokenConfigs \cup OffsetConfigs \cup SimpleOffsetConfigs \cup HeaderLinkConfigs

(***************************************************************************)
(* The request loop of a stream: RESTStream.request_records drives the     *)
(* paginator and get_records passes each row through post_process.         *)
(***************************************************************************)
VARIABLES config, stream, paginator, prev, pc, requests, pages, emitted, lastResp, err, ret,
          arg, tap, streams, heap, http

vars == <<config, stream, paginator, prev, pc, requests, pages, emitted, lastResp, err, ret,
          arg, tap, streams, heap, http>>

\* The variables of the tap run and of the direct calls of functions, which
\* the request loop of one stream neither reads nor writes.
runVars == <<arg, tap, streams, heap, http>>

NoArg == [fn |-> "none"]

NoTap == [config |-> <<>>]

RunIdle ==
    /\ arg = NoArg
    /\ tap = NoTap
    /\ streams = <<>>
    /\ heap = <<>>
    /\ http = <<>>

NoPaginator == [kind |-> "none"]

Init ==
    /\ config \in Configs
    /\ stream = DynamicStream(config)
    /\ paginator = NoPaginator
    /\ prev = NoPaginator
    /\ pc = "start"
    /\ requests = <<>>
    /\ pages = <<>>
    /\ emitted = <<>>
    /\ lastResp = NoResponse
    /\ err = "none"
    /\ ret = Ok(JNone)
    /\ RunIdle

\* request_records: paginator = self.get_new_paginator()
GetNewPaginator ==
    /\ pc = "start"
    /\ LET r == get_new_paginator(stream)
       IN  IF r.ok
           THEN /\ paginator' = r.val
                /\ pc' = "loop"
                /\ err' = err
           ELSE /\ paginator' = paginator
                /\ pc' = "error"
                /\ err' = r.err
    /\ UNCHANGED <<config, stream, prev, requests, pages, emitted, lastResp, ret>>
    /\ UNCHANGED runVars

\* One iteration of `while not paginator.finished`: the request with the
\* current cursor, the rows of the response yielded in order, and
\* paginator.advance; a response without rows ends the loop before advance.
RequestPage ==
    /\ pc = "loop"
    /\ ~paginator.finished
    /\ Len(requests) < MaxRequests
    /\ \E response \in ResponsesFor(stream) :
        LET rows == parse_response(stream, response)
            adv == advance(paginator, response)
        IN  /\ requests' = Append(requests, paginator.value)
            /\ lastResp' = response
            /\ pages' = Append(pages, rows)
            /\ emitted' = emitted \o PostProcessAll(stream, rows, 1)
            /\ IF Len(rows) = 0
               THEN /\ pc' = "done"
                    /\ UNCHANGED <<paginator, prev, err>>
               ELSE /\ prev' = paginator
                    /\ paginator' = adv.p
                    /\ err' = adv.err
                    /\ pc' = IF adv.err = "none" THEN "loop" ELSE "error"
    /\ UNCHANGED <<config, stream, ret>>
    /\ UNCHANGED runVars

\* The loop ends: paginator.finished.
Finish ==
    /\ pc = "loop"
    /\ paginator.finished
    /\ pc' = "done"
    /\ UNCHANGED <<config, stream, paginator, prev, requests, pages, emitted, lastResp, err, ret>>
    /\ UNCHANGED runVars

Next == GetNewPaginator \/ RequestPage \/ Finish

Spec == Init /\ [][Next]_vars

(***************************************************************************)
(* The paginator methods called directly, as the unit tests call them: a   *)
(* paginator built by its class constructor, some pages already counted,   *)
(* and one response.                                                       *)
(***************************************************************************)
RequestOpts ==
    {fs \o dir : fs \in Opt("fake_since", {JStr(DateStrings[2]), JStr(DateStrings[3])}),
                 dir \in Opt("direction", {JStr("asc"), JStr("desc")})}

DatedRowLists ==
    {<<>>, <<RowDated(3), RowDated(2)>>, <<RowDated(1)>>, <<RowA>>,
     <<RowCommit(2), RowCommit(1)>>}

FnLinkResponses ==
    {Resp(JList(rows), <<>>, links, rq) :
        rows \in DatedRowLists, links \in LinkOpts, rq \in RequestOpts}
    \cup {Resp(JDict(<< <<"items", JList(rows)>> >>), <<>>, links, <<>>) :
            rows \in DatedRowLists, links \in LinkOpts}
    \cup {Resp(JDict(<< <<"total", JInt(1)>> >>), <<>>, links, <<>>) : links \in LinkOpts}

FlagResponses ==
    {Resp(RecordsBody(<<RowA>>, hm \o more), <<>>, <<>>, <<>>) :
        hm \in Opt("hasMore", {JBool(TRUE), JBool(FALSE), JNone}),
        more \in Opt("more", {JBool(TRUE), JBool(FALSE)})}
    \cup {Resp(JList(<<RowA>>), <<>>, <<>>, <<>>)}

FnPaginators ==
    {[RestAPIHeaderLinkPaginator(ps, rl, fake, rk) EXCEPT !.page_count = n] :
        ps \in {1, 2}, rl \in {JNone, JInt(2)}, fake \in BOOLEAN,
        rk \in {<<>>, UpdatedAt, CommitTimestamp}, n \in 0..MaxRequests}
    \cup {RestAPIOffsetPaginator(1, JInt(1), jp, tp) :
            jp \in {JNone, JPath(<<"paging">>)}, tp \in {"total", "count"}}
    \cup {RestAPIBasePageNumberPaginator(1, jp) : jp \in {JNone, JPath(<<"more">>)}}
    \cup {SimpleOffsetPaginator(0, JInt(ps), ps) : ps \in {1, 2, DefaultPaginationPageSize}}

FnResponsesFor(p) ==
    CASE p.kind = "RestAPIHeaderLinkPaginator" -> FnLinkResponses
      [] p.kind = "RestAPIOffsetPaginator" -> OffsetResponses
      [] p.kind = "RestAPIBasePageNumberPaginator" -> FlagResponses
      [] OTHER -> ListResponses

InitFn ==
    /\ config = BaseConfig
    /\ stream = DynamicStream(BaseConfig)
    /\ paginator \in FnPaginators
    /\ prev = NoPaginator
    /\ pc = "call"
    /\ requests = <<>>
    /\ pages = <<>>
    /\ emitted = <<>>
    /\ lastResp \in FnResponsesFor(paginator)
    /\ err = "none"
    /\ ret = Ok(JNone)
    /\ RunIdle

\* paginator.get_next_url(response)
CallGetNextUrl ==
    /\ pc = "call"
    /\ paginator.kind = "RestAPIHeaderLinkPaginator"
    /\ ret' = RestAPIHeaderLinkPaginator_get_next_url(paginator, lastResp)
    /\ pc' = "returned"
    /\ UNCHANGED <<config, stream, paginator, prev, requests, pages, emitted, lastResp, err>>
    /\ UNCHANGED runVars

\* paginator.has_more(response)
CallHasMore ==
    /\ pc = "call"
    /\ paginator.kind # "RestAPIHeaderLinkPaginator"
    /\ ret' = has_more(paginator, lastResp)
    /\ pc' = "returned"
    /\ UNCHANGED <<config, stream, paginator, prev, requests, pages, emitted, lastResp, err>>
    /\ UNCHANGED runVars

NextFn == CallGetNextUrl \/ CallHasMore

SpecFn == InitFn /\ [][NextFn]_vars

(***************************************************************************)
(* Properties.  What the last response carried is read off the response    *)
(* itself, not through the paginators.                                     *)
(***************************************************************************)
\* The last response had rows, so paginator.advance was called on it.
Advanced == Len(pages) >= 1 /\ Len(pages[Len(pages)]) > 0

BodyHas(k) == lastResp.body.t = "dict" /\ HasKey(lastResp.body.v, k)

BodyField(k) == IF BodyHas(k) THEN Lookup(lastResp.body.v, k) ELSE JNone

Style == config.pagination_request_style

\* The body field the configured next_page_token_path names.
TokenKey == IF config.next_page_token_path = JNone THEN "next_page" ELSE "cursor"

FlatRowA == << <<<<"id">>, JInt(1)>> >>
FlatRowB == << <<<<"a", "_", "b", "_", "c">>, JInt(2)>>,
               <<<<"d">>, [t |-> "json", v |-> JList(<<JInt(1)>>)]>> >>

\* The record get_records is to emit for a row of the API.
ExpectedRecord(row) ==
    LET flat == IF row = RowA THEN FlatRowA ELSE FlatRowB
    IN  JDict(IF config.store_raw_json_message
              THEN flat \o << <<SdcRawJson, row>> >>
              ELSE flat)

RECURSIVE ExpectedOfPages(_, _)
\* The records of the pages from the i-th on, page by page, row by row.
ExpectedOfPages(ps, i) ==
    IF i > Len(ps) THEN <<>>
    ELSE [j \in 1..Len(ps[i]) |-> ExpectedRecord(ps[i][j])] \o ExpectedOfPages(ps, i + 1)

\* C1: in the default (JSONPath) style get_records emits the records of
\* every fetched page, in response order within a page and in request order
\* across pages; the first request carries no cursor and every later one the
\* token of the response before it; and after a response without a
\* next-page token no further request can be issued.
C1_DefaultStyleRecordsAndStop ==
    Style = "default" =>
        /\ Len(pages) = Len(requests)
        /\ emitted = ExpectedOfPages(pages, 1)
        /\ Len(pages) >= 1 => pages[Len(pages)] = BodyField("records").v
        /\ \A i \in 1..Len(requests) :
              IF i = 1 THEN requests[i] = JNone
              ELSE requests[i] \in {JStr("t1"), JStr("t2"), JStr("c1")}
        /\ (Len(requests) >= 1 /\ ~BodyHas(TokenKey)) =>
              (pc # "loop" \/ paginator.finished)

\* C1 witness: the two-page run: two rows and a token, then two rows and no
\* token; four records, two requests, the run over.
C1_Witness ==
    /\ Style = "default"
    /\ pc = "done"
    /\ Len(requests) = 2
    /\ requests[2] = JStr("t1")
    /\ pages = << <<RowA, RowB>>, <<RowA, RowB>> >>
    /\ Len(emitted) = 4
    /\ ~BodyHas("next_page")

C5_HeaderFallback ==
    (/\ Style = "default"
     /\ config.next_page_token_path = JNone
     /\ Advanced
     /\ ~BodyHas("next_page")
     /\ HasKey(lastResp.headers, "X-Next-Page")) =>
        /\ ~paginator.finished
        /\ paginator.value = Lookup(lastResp.headers, "X-Next-Page")

\* The pagination object of the last response, at the place the paginator
\* p reads it; JNone when there is none.
PaginationOf(p) == BodyField(IF p.jsonpath = JNone THEN "pagination" ELSE "paging")

\* A pagination object with integer fields only (or none at all).
FlatPagination(pg) ==
    pg = JNone \/ (pg.t = "dict" /\ \A i \in 1..Len(pg.v) : pg.v[i][2].t = "int")

PgHas(pg, k) == pg.t = "dict" /\ HasKey(pg.v, k)

\* C2 as claimed: has_more is true exactly when the pagination object has
\* offset, limit and the configured total field and offset + limit <= total;
\* a missing object or one lacking any of the three yields false.
C2_HasMoreIff ==
    (/\ pc = "returned"
     /\ paginator.kind = "RestAPIOffsetPaginator"
     /\ FlatPagination(PaginationOf(paginator))) =>
        LET pg == PaginationOf(paginator)
            tp == paginator.pagination_total_limit_param
        IN  /\ ret.ok
            /\ ret.val = JBool(TRUE) <=>
                  /\ PgHas(pg, "offset") /\ PgHas(pg, "limit") /\ PgHas(pg, tp)
                  /\ Lookup(pg.v, "offset").v + Lookup(pg.v, "limit").v
                        <= Lookup(pg.v, tp).v

OffsetStyle == Style \in {"style1", "offset_paginator"}

\* C3 as claimed: in the offset style, when pagination continues the next
\* cursor is offset + limit of the response's pagination object.
C3_NextCursorFromResponse ==
    (/\ OffsetStyle /\ Advanced /\ pc = "loop" /\ ~paginator.finished
     /\ FlatPagination(PaginationOf(paginator))
     /\ PgHas(PaginationOf(paginator), paginator.pagination_total_limit_param)) =>
        LET pg == PaginationOf(paginator)
        IN  /\ PgHas(pg, "offset") /\ PgHas(pg, "limit")
            /\ paginator.value =
                  JInt(Lookup(pg.v, "offset").v + Lookup(pg.v, "limit").v)

\* C6 as claimed: pagination metadata of another shape than expected makes
\* the paginator report no more pages; it raises nothing.
C6_MalformedEndsNormally ==
    (/\ OffsetStyle /\ Advanced
     /\ PaginationOf(prev) # JNone
     /\ PaginationOf(prev).t # "dict") =>
        /\ err = "none"
        /\ paginator.finished

HeaderLinkCall == pc = "returned" /\ paginator.kind = "RestAPIHeaderLinkPaginator"

NoNextLink == \A i \in 1..Len(lastResp.links) : lastResp.links[i][1] # "next"

\* The result list of the last response: the body when it is a list, else
\* its `items`.
ResultList ==
    IF lastResp.body.t = "list" THEN lastResp.body.v
    ELSE IF BodyHas("items") THEN BodyField("items").v
    ELSE <<>>

EmptyResults == Len(ResultList) = 0

\* The replication value of the last record, "" when it has none.
LastReplicationValue ==
    LET last == ResultList[Len(ResultList)].v
    IN  IF paginator.replication_key = CommitTimestamp
        THEN IF \E i \in 1..Len(last) : last[i][1] = <<"commit">>
             THEN Lookup(Lookup(Lookup(last, <<"commit">>).v, <<"committer">>).v,
                         <<"date">>).v
             ELSE ""
        ELSE IF \E i \in 1..Len(last) : last[i][1] = paginator.replication_key
             THEN Lookup(last, paginator.replication_key).v
             ELSE ""

\* The position in time of a date of DateStrings.
DateIndex(d) == CHOOSE i \in 1..Len(DateStrings) : DateStrings[i] = d

\* The fake-since workaround is on, the request carried fake_since and
\* direction=desc, and the last record is earlier than fake_since.
FakeSinceHit ==
    /\ paginator.use_fake_since_parameter
    /\ paginator.replication_key # <<>>
    /\ HasKey(lastResp.request, "fake_since")
    /\ HasKey(lastResp.request, "direction")
    /\ Lookup(lastResp.request, "direction") = JStr("desc")
    /\ ~EmptyResults
    /\ LastReplicationValue # ""
    /\ DateIndex(LastReplicationValue) < DateIndex(Lookup(lastResp.request, "fake_since").v)

LimitHit ==
    /\ paginator.page_count > 0
    /\ paginator.pagination_results_limit # JNone
    /\ paginator.page_count * paginator.pagination_page_size
          >= paginator.pagination_results_limit.v

\* The query of the `next` link's URL, "" when there is no such URL.
NextQuery ==
    IF NoNextLink THEN ""
    ELSE LET attrs == Lookup(lastResp.links, "next")
         IN  IF HasKey(attrs, "url") /\ Lookup(attrs, "url").t = "url"
             THEN Lookup(attrs, "url").query
             ELSE ""

\* C7: get_next_url returns None whenever there is no `next` link, or the
\* result list is empty, or the fake-since exit applies, each by itself;
\* what it returns otherwise is the query of the `next` link's URL, and it
\* returns that query when no stop condition holds.
C7_GetNextUrl ==
    HeaderLinkCall =>
        /\ (NoNextLink \/ EmptyResults \/ FakeSinceHit) => ret = Ok(JNone)
        /\ (ret.ok /\ ret.val # JNone) => (NextQuery # "" /\ ret.val = JStr(NextQuery))
        /\ (/\ ret.ok /\ ~LimitHit /\ ~NoNextLink /\ ~EmptyResults /\ ~FakeSinceHit
            /\ NextQuery # "") => ret.val = JStr(NextQuery)

\* C7 witness: a `next` link with a query, results, no limit reached, and
\* the fake-since exit alone returned None.
C7_Witness ==
    /\ HeaderLinkCall
    /\ FakeSinceHit
    /\ ~LimitHit
    /\ NextQuery = "page=2"
    /\ ret = Ok(JNone)

\* The page size S of a header-link stream: the configured one, else the
\* one the static params name, else 25.
ConfiguredPageSize ==
    IF config.pagination_page_size # JNone THEN config.pagination_page_size.v
    ELSE LET key == IF config.pagination_limit_per_page_param = JNone
                    THEN "per_page"
                    ELSE config.pagination_limit_per_page_param.v
         IN  IF HasKey(config.params, key) THEN Lookup(config.params, key).v
             ELSE DefaultPaginationPageSize

\* C8: restapi_header_link_paginator with results limit L and page size S:
\* every request but the first follows fewer than L/S pages, so at most
\* ceil(L/S) requests are issued, and once pages x S >= L the paginator is
\* finished.
C8_ResultsLimitStops ==
    (Style = "restapi_header_link_paginator" /\ config.pagination_results_limit # JNone) =>
        /\ Len(requests) >= 1 =>
              (Len(requests) - 1) * ConfiguredPageSize < config.pagination_results_limit.v
        /\ (pc = "loop" /\ paginator.page_count >= 1
            /\ paginator.page_count * ConfiguredPageSize
                  >= config.pagination_results_limit.v) => paginator.finished

\* C8 witness: L = 3, S = 2: two pages fetched, the server still offers a
\* `next` link, and the paginator is finished.
C8_Witness ==
    /\ Style = "restapi_header_link_paginator"
    /\ config.pagination_results_limit = JInt(3)
    /\ ConfiguredPageSize = 2
    /\ pc = "loop"
    /\ Len(requests) = 2
    /\ Advanced
    /\ NextQuery = "page=3"
    /\ paginator.finished

\* C9 as claimed: simple_offset_paginator with configured page size P:
\* pagination continues after a page exactly when the page had P records.
C9_ContinuesIffFullPage ==
    (/\ Style = "simple_offset_paginator"
     /\ config.pagination_page_size # JNone
     /\ Advanced
     /\ err = "none") =>
        (~paginator.finished <=>
            Len(pages[Len(pages)]) = config.pagination_page_size.v)

\* C10 as claimed: in the page-number style the run ends only after a page
\* whose has-more flag is false or absent.
C10_FlagDrivesPages ==
    (Style = "page_number_paginator" /\ pc \in {"done", "error"}) =>
        /\ Len(requests) >= 1
        /\ BodyField(IF config.next_page_token_path = JNone THEN "hasMore" ELSE "cursor")
              # JBool(TRUE)

(***************************************************************************)
(* Functions called directly with their arguments, as the unit tests call  *)
(* flatten_json: `arg` holds the function's name and its arguments, `ret`  *)
(* what it returned or raised.                                             *)
(***************************************************************************)
MaxKeys == 2

KeyA == <<"a">>
KeyB == <<"b">>
KeyA_B == <<"a", "_", "b">>
KeyADashB == <<"a", "-", "b">>
KeyADotB == <<"a", ".", "b">>
KeyEF == <<"e", ".", "-", "f">>
KeyC == <<"c">>
KeyD == <<"d">>
KeyB_C == <<"b", "_", "c">>

\* Scalar leaves and arrays.
LeafValues == {JInt(1), JStr("x"), JNone, JList(<<JInt(4), JInt(5)>>)}

\* Nested objects, one and two levels deep, and the empty object.
NestedValues ==
    {JDict(<<>>)}
    \cup {JDict(<< <<KeyA, JInt(2)>> >>), JDict(<< <<KeyB, JInt(3)>> >>)}
    \cup {JDict(<< <<KeyB, JDict(<< <<KeyA, JInt(3)>> >>)>> >>),
          JDict(<< <<KeyA, JInt(2)>>, <<KeyB, JDict(<< <<KeyA, JInt(3)>> >>)>> >>)}
    \cup {JDict(<< <<KeyB, JList(<<JInt(4)>>)>> >>)}

RECURSIVE DictsOver(_, _, _)
\* The objects with at most n entries, keys distinct and drawn from keys,
\* values drawn from values, in every insertion order.
DictsOver(keys, values, n) ==
    IF n = 0 THEN {<<>>}
    ELSE LET smaller == DictsOver(keys, values, n - 1)
         IN  smaller \cup
             {Append(d, <<k, v>>) : d \in {x \in smaller : Len(x) = n - 1},
                                    k \in keys, v \in values}

DistinctKeys(d) == \A i, j \in 1..Len(d) : d[i][1] = d[j][1] => i = j

\* The record of test_flatten_json, without its arrays and excepted key.
TestRecord ==
    JDict(<< <<KeyA, JInt(1)>>,
             <<KeyB, JDict(<< <<KeyA, JInt(2)>>,
                              <<KeyB, JDict(<< <<KeyA, JInt(3)>> >>)>> >>)>>,
             <<KeyEF, JInt(6)>> >>)

\* The record d of test_flatten_json.
TestRecordFull ==
    JDict(<< <<KeyA, JInt(1)>>,
             <<KeyB, JDict(<< <<KeyA, JInt(2)>>,
                              <<KeyB, JDict(<< <<KeyA, JInt(3)>> >>)>>,
                              <<KeyC, JDict(<< <<KeyA, JStr("bacon")>>,
                                               <<KeyB, JStr("yum")>> >>)>> >>)>>,
             <<KeyC, JList(<<JDict(<< <<<<"foo">>, JStr("bar")>> >>),
                             JDict(<< <<<<"eggs">>, JStr("spam")>> >>)>>)>>,
             <<KeyD, JList(<<JInt(4), JInt(5)>>)>>,
             <<KeyEF, JInt(6)>> >>)

\* Rows that are no objects.
NonObjectRecords == {JList(<<JInt(4), JInt(5)>>), JInt(1), JStr("x"), JNone}

FlattenRecords ==
    {JDict(d) : d \in {x \in DictsOver({KeyA, KeyA_B, KeyADashB, KeyADotB},
                                        LeafValues \cup NestedValues, MaxKeys) :
                          DistinctKeys(x)}}

ExceptKeyLists == {{}, {KeyA_B}, {KeyADashB}}

TestExceptKeyLists == {{}, {KeyB}, {KeyB_C}}

FlattenArgs ==
    {[fn |-> "flatten_json", obj |-> o, except_keys |-> e, store_raw_json_message |-> raw] :
        o \in FlattenRecords, e \in ExceptKeyLists, raw \in BOOLEAN}
    \cup
    {[fn |-> "flatten_json", obj |-> o, except_keys |-> e, store_raw_json_message |-> raw] :
        o \in {TestRecord, TestRecordFull} \cup NonObjectRecords,
        e \in TestExceptKeyLists, raw \in BOOLEAN}

InitFlatten ==
    /\ config = BaseConfig
    /\ stream = DynamicStream(BaseConfig)
    /\ paginator = NoPaginator
    /\ prev = NoPaginator
    /\ pc = "call"
    /\ requests = <<>>
    /\ pages = <<>>
    /\ emitted = <<>>
    /\ lastResp = NoResponse
    /\ err = "none"
    /\ ret = Ok(JNone)
    /\ arg \in FlattenArgs
    /\ tap = NoTap
    /\ streams = <<>>
    /\ heap = <<>>
    /\ http = <<>>

\* flatten_json(obj, except_keys, store_raw_json_message)
CallFlattenJson ==
    /\ pc = "call"
    /\ arg.fn = "flatten_json"
    /\ ret' = Ok(flatten_json(arg.obj, arg.except_keys, arg.store_raw_json_message))
    /\ pc' = "returned"
    /\ UNCHANGED <<config, stream, paginator, prev, requests, pages, emitted, lastResp, err>>
    /\ UNCHANGED runVars

\* flatten_json called on what flatten_json returned, with the same
\* except_keys: `emitted` keeps the first result, `ret` holds the second.
CallFlattenJsonAgain ==
    /\ pc = "returned"
    /\ arg.fn = "flatten_json"
    /\ ~arg.store_raw_json_message
    /\ emitted' = <<ret.val>>
    /\ ret' = Ok(flatten_json(ret.val, arg.except_keys, FALSE))
    /\ pc' = "returned again"
    /\ UNCHANGED <<config, stream, paginator, prev, requests, pages, lastResp, err>>
    /\ UNCHANGED runVars

NextFlatten == CallFlattenJson \/ CallFlattenJsonAgain

SpecFlatten == InitFlatten /\ [][NextFlatten]_vars

(***************************************************************************)
(* Properties of flatten_json.  The leaves of a record and their expected  *)
(* keys are read off the record itself.                                    *)
(***************************************************************************)
FlattenReturned == pc = "returned" /\ arg.fn = "flatten_json"

RECURSIVE LeavesOf(_, _)
RECURSIVE LeavesOfItems(_, _, _)
\* The leaves (values that are no objects) below o in document order, each
\* as <<path, value>>, path the sequence of keys leading to it.
LeavesOf(o, path) ==
    IF o.t = "dict" THEN LeavesOfItems(o.v, 1, path) ELSE << <<path, o>> >>

LeavesOfItems(items, i, path) ==
    IF i > Len(items) THEN <<>>
    ELSE LeavesOf(items[i][2], Append(path, items[i][1]))
            \o LeavesOfItems(items, i + 1, path)

RECURSIVE JoinPath(_, _)
\* The keys of path[i..] joined by "_".
JoinPath(path, i) ==
    IF i > Len(path) THEN <<>>
    ELSE IF i = Len(path) THEN path[i]
    ELSE path[i] \o <<"_">> \o JoinPath(path, i + 1)

\* The key expected for a path: joined by "_", "-" and "." replaced by "_".
LeafKey(path) ==
    LET k == JoinPath(path, 1)
    IN  [i \in 1..Len(k) |-> IF k[i] = "-" \/ k[i] = "." THEN "_" ELSE k[i]]

ArgLeaves == LeavesOf(arg.obj, <<>>)

\* Nested objects and scalar leaves only, no excepted key, no raw message.
PlainFlattenCall ==
    /\ FlattenReturned
    /\ arg.except_keys = {}
    /\ ~arg.store_raw_json_message
    /\ \A i \in 1..Len(ArgLeaves) : ArgLeaves[i][2].t # "list"

LeafKeysDistinct ==
    \A i, j \in 1..Len(ArgLeaves) :
        LeafKey(ArgLeaves[i][1]) = LeafKey(ArgLeaves[j][1]) => i = j

OneEntryPerLeaf ==
    /\ ret.ok
    /\ Len(ret.val.v) = Len(ArgLeaves)
    /\ \A i \in 1..Len(ArgLeaves) :
          /\ HasKey(ret.val.v, LeafKey(ArgLeaves[i][1]))
          /\ Lookup(ret.val.v, LeafKey(ArgLeaves[i][1])) = ArgLeaves[i][2]

\* C20 as claimed: for nested objects with scalar leaves, flatten_json
\* returns exactly one entry per scalar leaf, under the joined and
\* translated key, holding the leaf's value.
C20_OneEntryPerLeaf == PlainFlattenCall => OneEntryPerLeaf

\* C20 amended: the keys returned are exactly the joined, translated keys of
\* the leaves; when these keys are pairwise distinct there is exactly one
\* entry per leaf, holding the leaf's value unchanged.
C20_OneEntryPerDistinctLeafKey ==
    PlainFlattenCall =>
        /\ ret.ok
        /\ Keys(ret.val.v) = {LeafKey(ArgLeaves[i][1]) : i \in 1..Len(ArgLeaves)}
        /\ LeafKeysDistinct => OneEntryPerLeaf

\* The record of test_flatten_json gives a, b_a, b_b_a and e__f.
C20_Witness ==
    /\ PlainFlattenCall
    /\ arg.obj = TestRecord
    /\ ret.val = JDict(<< <<KeyA, JInt(1)>>,
                          <<<<"b", "_", "a">>, JInt(2)>>,
                          <<<<"b", "_", "b", "_", "a">>, JInt(3)>>,
                          <<<<"e", "_", "_", "f">>, JInt(6)>> >>)

(***************************************************************************)
(* Texts read character by character: header values and error messages    *)
(* are sequences of one-character strings, so that str.split, str.isdigit  *)
(* and int() are computed as Python computes them.                         *)
(***************************************************************************)
JText(chars) == [t |-> "text", v |-> chars]

DigitChars == <<"0", "1", "2", "3", "4", "5", "6", "7", "8", "9">>

Digits == {DigitChars[i] : i \in 1..Len(DigitChars)}

DigitValue(c) == (CHOOSE i \in 1..Len(DigitChars) : DigitChars[i] = c) - 1

RECURSIVE DecimalValue(_, _)
\* The number written by the digits s[1..n].
DecimalValue(s, n) ==
    IF n = 0 THEN 0 ELSE 10 * DecimalValue(s, n - 1) + DigitValue(s[n])

\* str.isdigit(): not empty and digits only.
isdigit(s) == Len(s) > 0 /\ \A i \in 1..Len(s) : s[i] \in Digits

RECURSIVE split_from(_, _, _)
\* str.split() from position i on, cur the word being read: the maximal
\* runs of characters that are no whitespace.
split_from(s, i, cur) ==
    IF i > Len(s) THEN (IF Len(cur) > 0 THEN <<cur>> ELSE <<>>)
    ELSE IF s[i] = " "
         THEN (IF Len(cur) > 0 THEN <<cur>> ELSE <<>>) \o split_from(s, i + 1, <<>>)
         ELSE split_from(s, i + 1, Append(cur, s[i]))

split(s) == split_from(s, 1, <<>>)

RECURSIVE lstrip(_)
lstrip(s) == IF Len(s) > 0 /\ s[1] = " " THEN lstrip(Tail(s)) ELSE s

RECURSIVE rstrip(_)
rstrip(s) ==
    IF Len(s) > 0 /\ s[Len(s)] = " " THEN rstrip(SubSeq(s, 1, Len(s) - 1)) ELSE s

\* int(x): an int is itself; a text is stripped of whitespace and read as an
\* optional sign and decimal digits, anything else is a ValueError.
py_int(x) ==
    IF x.t = "int" THEN Ok(x.v)
    ELSE IF x.t # "text" THEN Raise("TypeError")
    ELSE LET s == rstrip(lstrip(x.v))
             signed == Len(s) > 0 /\ s[1] \in {"+", "-"}
             digits == IF signed THEN Tail(s) ELSE s
         IN  IF isdigit(digits)
             THEN Ok(IF signed /\ s[1] = "-"
                     THEN 0 - DecimalValue(digits, Len(digits))
                     ELSE DecimalValue(digits, Len(digits)))
             ELSE Raise("ValueError")

RECURSIVE IntsOfDigitWords(_, _)
\* [int(i) for i in words if i.isdigit()]
IntsOfDigitWords(words, i) ==
    IF i > Len(words) THEN <<>>
    ELSE (IF isdigit(words[i]) THEN <<DecimalValue(words[i], Len(words[i]))>> ELSE <<>>)
            \o IntsOfDigitWords(words, i + 1)

\* max(res) of a list of numbers.
py_max(res) ==
    IF Len(res) = 0 THEN Raise("ValueError")
    ELSE Ok(CHOOSE m \in {res[i] : i \in 1..Len(res)} :
                \A i \in 1..Len(res) : res[i] <= m)

\* Header names compare without regard to case (requests' headers).
LowerName(name) ==
    CASE name = "Retry-After" -> "retry-after"
      [] name = "X-Wait" -> "x-wait"
      [] OTHER -> name

\* response.headers.get(key, default)
headers_get(headers, key, default) ==
    IF \E i \in 1..Len(headers) : LowerName(headers[i][1]) = LowerName(key)
    THEN headers[CHOOSE i \in 1..Len(headers) :
                    LowerName(headers[i][1]) = LowerName(key)][2]
    ELSE default

(***************************************************************************)
(* streams.py: DynamicStream.backoff_wait_generator.                       *)
(***************************************************************************)
backoff_from_headers_no_extension(self, exception) ==
    py_int(headers_get(exception.response.headers, self.backoff_param, JInt(0)))

\* _backoff_from_headers(exception)
backoff_from_headers(self, exception) ==
    LET n == py_int(headers_get(exception.response.headers, self.backoff_param, JInt(0)))
    IN  IF n.ok THEN Ok(n.val + self.backoff_time_extension) ELSE n

\* _get_wait_time_from_response(exception)
get_wait_time_from_response(self, exception) ==
    LET response_message == py_get(exception.response.body, "message", JInt(0))
    IN  IF ~response_message.ok THEN response_message
        ELSE IF response_message.val.t # "text" THEN Raise("AttributeError")
        ELSE LET res == IntsOfDigitWords(split(response_message.val.v), 1)
                 m == py_max(res)
             IN  IF m.ok THEN Ok(m.val + self.backoff_time_extension) ELSE m

\* backoff_wait_generator(): the generator returned, named by the function
\* that computes its values; "backoff.expo" is the generator of the SDK.
backoff_wait_generator(self) ==
    IF self.backoff_type = JStr("message") THEN "_get_wait_time_from_response"
    ELSE IF self.backoff_type = JStr("header") THEN "_backoff_from_headers"
    ELSE "backoff.expo"

\* The wait the generator of the stream yields for a failed response; the
\* waits of the SDK's generator do not depend on the response.
backoff_wait(self, exception) ==
    LET gen == backoff_wait_generator(self)
    IN  CASE gen = "_get_wait_time_from_response" ->
                get_wait_time_from_response(self, exception)
          [] gen = "_backoff_from_headers" -> backoff_from_headers(self, exception)
          [] OTHER -> Ok(gen)

(***************************************************************************)
(* The waits of a stream's backoff generator, computed for one failed      *)
(* response.                                                               *)
(***************************************************************************)
MaxMessageLen == 4

MessageChars == {"1", "5", "s", " "}

RECURSIVE TextsUpTo(_)
\* The texts of at most n characters of MessageChars.
TextsUpTo(n) ==
    IF n = 0 THEN {<<>>}
    ELSE LET shorter == TextsUpTo(n - 1)
         IN  shorter \cup {Append(s, c) : s \in {x \in shorter : Len(x) = n - 1},
                                          c \in MessageChars}

\* Header values a server sends as Retry-After: seconds, each with the
\* number it writes, and two values that are no integers.
RetryAfterSeconds ==
    {[text |-> <<"0">>, value |-> 0],
     [text |-> <<"5">>, value |-> 5],
     [text |-> <<"3", "0">>, value |-> 30],
     [text |-> <<"1", "2", "0">>, value |-> 120]}

RetryAfterOthers == {<<"1", ".", "5">>, <<"W", "e", "d", ",", " ", "2", "1">>}

RetryAfterTexts == {x.text : x \in RetryAfterSeconds} \cup RetryAfterOthers

MessageBody(text) == JDict(<< <<"message", JText(text)>> >>)

FailedResponses ==
    {Resp(MessageBody(<<"5">>), << <<name, JText(v)>> >>, <<>>, <<>>) :
        name \in {"Retry-After", "retry-after", "X-Wait"}, v \in RetryAfterTexts}
    \cup {Resp(MessageBody(m), <<>>, <<>>, <<>>) : m \in TextsUpTo(MaxMessageLen)}
    \cup {Resp(b, <<>>, <<>>, <<>>) :
            b \in {JDict(<<>>), JList(<<>>), JDict(<< <<"message", JInt(30)>> >>),
                   JDict(<< <<"error", JText(<<"5">>)>> >>)}}

BackoffConfigs ==
    {[BaseConfig EXCEPT !.backoff_type = bt, !.backoff_param = bp,
                        !.backoff_time_extension = ext] :
        bt \in {JNone, JStr("header"), JStr("message")},
        bp \in {"Retry-After", "X-Wait"}, ext \in {0, 2}}

BackoffArgs ==
    {[fn |-> "backoff_wait_generator", exception |-> [response |-> r]] :
        r \in FailedResponses}

InitBackoff ==
    /\ config \in BackoffConfigs
    /\ stream = DynamicStream(config)
    /\ paginator = NoPaginator
    /\ prev = NoPaginator
    /\ pc = "call"
    /\ requests = <<>>
    /\ pages = <<>>
    /\ emitted = <<>>
    /\ lastResp = NoResponse
    /\ err = "none"
    /\ ret = Ok(JNone)
    /\ arg \in BackoffArgs
    /\ tap = NoTap
    /\ streams = <<>>
    /\ heap = <<>>
    /\ http = <<>>

\* gen = stream.backoff_wait_generator(); next(gen); gen.send(exception)
CallBackoffWait ==
    /\ pc = "call"
    /\ arg.fn = "backoff_wait_generator"
    /\ ret' = backoff_wait(stream, arg.exception)
    /\ pc' = "returned"
    /\ UNCHANGED <<config, stream, paginator, prev, requests, pages, emitted, lastResp, err>>
    /\ UNCHANGED runVars

NextBackoff == CallBackoffWait

SpecBackoff == InitBackoff /\ [][NextBackoff]_vars

(***************************************************************************)
(* Properties of the backoff waits.                                        *)
(***************************************************************************)
BackoffReturned == pc = "returned" /\ arg.fn = "backoff_wait_generator"

FailedHeaders == arg.exception.response.headers

\* The header named by backoff_param is present in the failed response.
BackoffHeaderPresent ==
    \E i \in 1..Len(FailedHeaders) :
        LowerName(FailedHeaders[i][1]) = LowerName(config.backoff_param)

BackoffHeaderText ==
    FailedHeaders[CHOOSE i \in 1..Len(FailedHeaders) :
                    LowerName(FailedHeaders[i][1]) = LowerName(config.backoff_param)][2].v

\* The number of seconds the header writes, where it writes an integer.
BackoffHeaderIsSeconds == \E x \in RetryAfterSeconds : x.text = BackoffHeaderText

BackoffHeaderSeconds ==
    (CHOOSE x \in RetryAfterSeconds : x.text = BackoffHeaderText).value

\* C12: with backoff_type "header" the wait is the integer of the header
\* named by backoff_param, 0 when the header is absent, plus
\* backoff_time_extension; with no backoff_type the generator is the SDK's.
C12_HeaderWait ==
    BackoffReturned =>
        /\ (config.backoff_type = JStr("header") /\ ~BackoffHeaderPresent) =>
              ret = Ok(config.backoff_time_extension)
        /\ (config.backoff_type = JStr("header") /\ BackoffHeaderPresent
                /\ BackoffHeaderIsSeconds) =>
              ret = Ok(BackoffHeaderSeconds + config.backoff_time_extension)
        /\ config.backoff_type = JNone => ret = Ok("backoff.expo")

\* Retry-After: 30 with an extension of 2 gives a wait of 32.
C12_Witness ==
    /\ BackoffReturned
    /\ config.backoff_type = JStr("header")
    /\ config.backoff_time_extension = 2
    /\ BackoffHeaderPresent
    /\ BackoffHeaderText = <<"3", "0">>
    /\ ret = Ok(32)


FailedBody == arg.exception.response.body

\* The failed response carries an error message text.
HasMessageText ==
    /\ FailedBody.t = "dict"
    /\ HasKey(FailedBody.v, "message")
    /\ Lookup(FailedBody.v, "message").t = "text"

MessageText == Lookup(FailedBody.v, "message").v

RECURSIVE DigitRuns(_, _, _)
\* The maximal runs of digits of s from position i on, cur the run being
\* read: the integers embedded in the text.
DigitRuns(s, i, cur) ==
    IF i > Len(s) THEN (IF Len(cur) > 0 THEN {cur} ELSE {})
    ELSE IF s[i] \in Digits THEN DigitRuns(s, i + 1, Append(cur, s[i]))
    ELSE (IF Len(cur) > 0 THEN {cur} ELSE {}) \cup DigitRuns(s, i + 1, <<>>)

EmbeddedIntegers(s) == {DecimalValue(r, Len(r)) : r \in DigitRuns(s, 1, <<>>)}

\* C13 as claimed: with backoff_type "message" the wait is the largest
\* integer embedded anywhere in the message text plus
\* backoff_time_extension, for every message text that embeds an integer.
C13_MessageWait ==
    (/\ BackoffReturned /\ config.backoff_type = JStr("message")
     /\ HasMessageText /\ EmbeddedIntegers(MessageText) # {}) =>
        /\ ret.ok
        /\ \A n \in EmbeddedIntegers(MessageText) :
              n + config.backoff_time_extension <= ret.val
        /\ \E n \in EmbeddedIntegers(MessageText) :
              ret.val = n + config.backoff_time_extension

(***************************************************************************)
(* auth.py: ConfigurableOAuthAuthenticator.oauth_request_body, and the     *)
(* SDK's update_access_token that posts it to the auth endpoint.  A        *)
(* configuration is a record; a setting that is not configured is None.    *)
(***************************************************************************)
\* The settings added to the body when set, in the order the code adds them.
OAuthOptionalFields ==
    <<"scope", "client_id", "client_secret", "username", "password", "refresh_token",
      "redirect_uri">>

RECURSIVE oauth_params_from(_, _, _)
\* The `if x: oauth_params[name] = x` statements from the i-th on.
oauth_params_from(my_config, oauth_params, i) ==
    IF i > Len(OAuthOptionalFields) THEN oauth_params
    ELSE LET name == OAuthOptionalFields[i]
         IN  oauth_params_from(my_config,
                IF Truthy(my_config[name])
                THEN DictSet(oauth_params, name, my_config[name])
                ELSE oauth_params,
                i + 1)

RECURSIVE dict_update(_, _, _)
\* for k, v in extras.items(): d[k] = v
dict_update(d, extras, i) ==
    IF i > Len(extras) THEN d
    ELSE dict_update(DictSet(d, extras[i][1], extras[i][2]), extras, i + 1)

oauth_request_body_refresh_unchecked(my_config) ==
    LET grant_type == my_config.grant_type
    IN  IF ~Truthy(grant_type) THEN Raise("ValueError")
        ELSE IF grant_type = JStr("client_credentials")
                /\ ~(Truthy(my_config.client_id) /\ Truthy(my_config.client_secret))
        THEN Raise("ValueError")
        ELSE IF grant_type = JStr("password")
                /\ ~(Truthy(my_config.username) /\ Truthy(my_config.password))
        THEN Raise("ValueError")
        ELSE LET set == oauth_params_from(my_config, << <<"grant_type", grant_type>> >>, 1)
             IN  Ok(IF Truthy(my_config.oauth_extras)
                    THEN dict_update(set, my_config.oauth_extras.v, 1)
                    ELSE set)

\* oauth_request_body: the parameters of the token request, or ValueError.
oauth_request_body(my_config) ==
    LET grant_type == my_config.grant_type
    IN  IF ~Truthy(grant_type) THEN Raise("ValueError")
        ELSE IF grant_type = JStr("client_credentials")
                /\ ~(Truthy(my_config.client_id) /\ Truthy(my_config.client_secret))
        THEN Raise("ValueError")
        ELSE IF grant_type = JStr("password")
                /\ ~(Truthy(my_config.username) /\ Truthy(my_config.password))
        THEN Raise("ValueError")
        ELSE IF grant_type = JStr("refresh_token") /\ ~Truthy(my_config.refresh_token)
        THEN Raise("ValueError")
        ELSE LET set == oauth_params_from(my_config, << <<"grant_type", grant_type>> >>, 1)
             IN  Ok(IF Truthy(my_config.oauth_extras)
                    THEN dict_update(set, my_config.oauth_extras.v, 1)
                    ELSE set)

\* The token request of OAuthAuthenticator.update_access_token: a POST of
\* the request body to the auth endpoint.
TokenRequest(data) == [op |-> "POST", url |-> "access_token_url", data |-> data]

\* The configurations of the OAuth settings.
OAuthConfigs ==
    LET set(x) == {JNone, JStr(x)}
    IN  {[grant_type |-> g, client_id |-> ci, client_secret |-> cs, username |-> un,
          password |-> pw, refresh_token |-> rt, scope |-> sc, redirect_uri |-> ru,
          oauth_extras |-> ex] :
            g \in {JNone, JStr(""), JStr("client_credentials"), JStr("password"),
                   JStr("refresh_token"), JStr("authorization_code")},
            ci \in set("id"), cs \in set("secret") \cup {JStr("")}, un \in set("user"),
            pw \in set("pass"), rt \in set("refresh"), sc \in set("read"),
            ru \in set("uri"),
            ex \in {JNone, JDict(<<>>),
                    JDict(<< <<"resource", JStr("api")>>, <<"scope", JStr("all")>> >>)}}

InitOAuth ==
    /\ config = BaseConfig
    /\ stream = DynamicStream(BaseConfig)
    /\ paginator = NoPaginator
    /\ prev = NoPaginator
    /\ pc = "call"
    /\ requests = <<>>
    /\ pages = <<>>
    /\ emitted = <<>>
    /\ lastResp = NoResponse
    /\ err = "none"
    /\ ret = Ok(JNone)
    /\ arg \in {[fn |-> "update_access_token", config |-> c] : c \in OAuthConfigs}
    /\ tap = NoTap
    /\ streams = <<>>
    /\ heap = <<>>
    /\ http = <<>>

\* authenticator.update_access_token(): the request body is built first,
\* then posted.
CallUpdateAccessToken ==
    /\ pc = "call"
    /\ arg.fn = "update_access_token"
    /\ LET body == oauth_request_body(arg.config)
       IN  /\ ret' = body
           /\ http' = IF body.ok THEN Append(http, TokenRequest(body.val)) ELSE http
    /\ pc' = "returned"
    /\ UNCHANGED <<config, stream, paginator, prev, requests, pages, emitted, lastResp, err>>
    /\ UNCHANGED <<arg, tap, streams, heap>>

NextOAuth == CallUpdateAccessToken

SpecOAuth == InitOAuth /\ [][NextOAuth]_vars


(***************************************************************************)
(* Properties of the OAuth request body.                                   *)
(***************************************************************************)
OAuthReturned == pc = "returned" /\ arg.fn = "update_access_token"

Configured(name) == arg.config[name] # JNone /\ arg.config[name] # JStr("")

\* A field the grant type mandates is missing.
MissingMandatory ==
    \/ ~Configured("grant_type")
    \/ /\ arg.config.grant_type = JStr("client_credentials")
       /\ ~(Configured("client_id") /\ Configured("client_secret"))
    \/ /\ arg.config.grant_type = JStr("password")
       /\ ~(Configured("username") /\ Configured("password"))
    \/ /\ arg.config.grant_type = JStr("refresh_token")
       /\ ~Configured("refresh_token")

ExtrasOf(c) == IF c.oauth_extras.t = "dict" THEN c.oauth_extras.v ELSE <<>>

\* C17: oauth_request_body raises ValueError, and no token request is sent,
\* when the grant type or a field it mandates is missing; otherwise the body
\* posted holds grant_type, every configured credential field, scope and
\* redirect_uri when configured, and every oauth_extras entry (an extra
\* named like a setting takes that setting's place).
C17_RequestBody ==
    OAuthReturned =>
        IF MissingMandatory
        THEN ret = Raise("ValueError") /\ http = <<>>
        ELSE /\ ret.ok
             /\ http = <<TokenRequest(ret.val)>>
             /\ \A name \in {"grant_type", "client_id", "client_secret", "username",
                             "password", "refresh_token", "scope", "redirect_uri"} :
                  Configured(name) =>
                      /\ HasKey(ret.val, name)
                      /\ ~HasKey(ExtrasOf(arg.config), name) =>
                            Lookup(ret.val, name) = arg.config[name]
             /\ \A i \in 1..Len(ExtrasOf(arg.config)) :
                  /\ HasKey(ret.val, ExtrasOf(arg.config)[i][1])
                  /\ Lookup(ret.val, ExtrasOf(arg.config)[i][1]) = ExtrasOf(arg.config)[i][2]
             /\ \A k \in Keys(ret.val) :
                  \/ HasKey(ExtrasOf(arg.config), k)
                  \/ Configured(k)

\* A password grant with user name, password, redirect_uri and extras: the
\* body posted holds them all.
C17_Witness ==
    /\ OAuthReturned
    /\ arg.config.grant_type = JStr("password")
    /\ arg.config.client_id = JNone
    /\ arg.config.refresh_token = JNone
    /\ arg.config.client_secret = JNone
    /\ http = <<TokenRequest(<< <<"grant_type", JStr("password")>>,
                                <<"scope", JStr("all")>>,
                                <<"username", JStr("user")>>,
                                <<"password", JStr("pass")>>,
                                <<"redirect_uri", JStr("uri")>>,
                                <<"resource", JStr("api")>> >>)>>

\* A refresh_token grant without a refresh token raises before any request.
C17_WitnessRaise ==
    /\ OAuthReturned
    /\ arg.config.grant_type = JStr("refresh_token")
    /\ arg.config.refresh_token = JNone
    /\ ret = Raise("ValueError")
    /\ http = <<>>

(***************************************************************************)
(* auth.py: the authenticators.  Authenticator objects live in `heap`, a   *)
(* sequence; an object is named by its position, 0 is None.  A tap or a    *)
(* stream is a record with its configuration, its _authenticator and its   *)
(* http_auth, and counts what was done on it: get_authenticator calls,     *)
(* select_authenticator calls, and the calls that found the stored         *)
(* authenticator's token expired.                                          *)
(***************************************************************************)
\* config.get(key) or os.environ.get(envkey)
aws_setting(settings, env, key, envkey) ==
    LET explicit == IF HasKey(settings, key) THEN Lookup(settings, key) ELSE JNone
    IN  IF Truthy(explicit) THEN explicit
        ELSE IF HasKey(env, envkey) THEN Lookup(env, envkey) ELSE JNone

\* AWSConnectClient(connection_config): _create_aws_client and
\* _store_aws4auth_credentials; the result is aws_auth, an AWS4Auth with
\* the credentials of the session, or None.
AWSConnectClient(connection_config, env) ==
    IF connection_config.t # "dict" THEN Raise("AttributeError")
    ELSE LET settings == connection_config.v
             aws_profile == aws_setting(settings, env, "aws_profile", "AWS_PROFILE")
             aws_access_key_id ==
                aws_setting(settings, env, "aws_access_key_id", "AWS_ACCESS_KEY_ID")
             aws_secret_access_key ==
                aws_setting(settings, env, "aws_secret_access_key", "AWS_SECRET_ACCESS_KEY")
             create_signed_credentials ==
                IF HasKey(settings, "create_signed_credentials")
                THEN Truthy(Lookup(settings, "create_signed_credentials"))
                ELSE TRUE
             credentials ==
                IF Truthy(aws_access_key_id) /\ Truthy(aws_secret_access_key)
                THEN [access_key |-> aws_access_key_id, secret_key |-> aws_secret_access_key]
                ELSE IF Truthy(aws_profile)
                THEN [access_key |-> aws_profile, secret_key |-> aws_profile]
                ELSE JNone
         IN  Ok(IF create_signed_credentials /\ credentials # JNone
                THEN [kind |-> "AWS4Auth", access_key |-> credentials.access_key,
                      secret_key |-> credentials.secret_key]
                ELSE JNone)

\* A call that builds an object: the heap with the object added, and its
\* position.
New(objects, object) == [ok |-> TRUE, val |-> Len(objects) + 1, heap |-> Append(objects, object)]

\* The SDK's authenticators as the selector builds them; an OAuth
\* authenticator starts without a token.
Authenticator(kind) == [kind |-> kind, access_token |-> 0, valid |-> FALSE]

\* The aws branch of select_authenticator: http_auth is the aws_auth of
\* the connection client, which is also what is returned.
aws_http_auth(objects, client) ==
    IF ~client.ok THEN client
    ELSE IF client.val # JNone THEN New(objects, client.val)
    ELSE [ok |-> TRUE, val |-> 0, heap |-> objects]

\* select_authenticator(self): the position of the authenticator (0 for
\* None) or the error raised.
select_authenticator(self, objects) ==
    LET my_config == self.config
        auth_method == my_config.auth_method
    IN  CASE auth_method = "api_key" ->
                IF Truthy(my_config.api_keys)
                THEN New(objects, Authenticator("APIKeyAuthenticator"))
                ELSE Raise("UnboundLocalError")
          [] auth_method = "basic" -> New(objects, Authenticator("BasicAuthenticator"))
          [] auth_method = "oauth" ->
                New(objects, Authenticator("ConfigurableOAuthAuthenticator"))
          [] auth_method = "bearer_token" ->
                New(objects, Authenticator("BearerTokenAuthenticator"))
          [] auth_method = "aws" ->
                aws_http_auth(objects,
                              AWSConnectClient(my_config.aws_credentials, my_config.env))
          [] auth_method # "no_auth" -> Raise("ValueError")
          [] OTHER -> [ok |-> TRUE, val |-> 0, heap |-> objects]

\* authenticator.is_token_valid() of the stored authenticator.
is_token_valid(objects, a) == objects[a].valid

\* get_authenticator, `if not self._authenticator`: the selector runs
\* when nothing is stored.
first_selection(self, objects) ==
    IF self._authenticator = 0
    THEN select_authenticator(self, objects)
    ELSE [ok |-> TRUE, val |-> self._authenticator, heap |-> objects]

\* get_authenticator, `if not self._authenticator` after the selection:
\* the default authenticator stands in for None.
or_default(selected) ==
    IF selected.val = 0
    THEN New(selected.heap, Authenticator("APIAuthenticatorBase"))
    ELSE selected

\* get_authenticator, the oauth branch: an authenticator whose token is
\* not valid is replaced by a newly selected one.
found_invalid(self, stored) ==
    self.config.auth_method = "oauth" /\ ~is_token_valid(stored.heap, stored.val)

token_checked(self, stored) ==
    IF found_invalid(self, stored) THEN select_authenticator(self, stored.heap)
    ELSE stored

\* The tap or stream once get_authenticator has stored `kept`, having
\* selected n times.
authenticated(self, kept, n) ==
    [ok |-> TRUE, err |-> "none", heap |-> kept.heap,
     self |-> [self EXCEPT
                 !._authenticator = kept.val,
                 !.selects = @ + n,
                 !.http_auth = IF self.config.auth_method = "aws" THEN kept.val ELSE 0]]

get_authenticator_from(self, objects, selected) ==
    IF ~selected.ok
    THEN [ok |-> FALSE, err |-> selected.err, heap |-> objects,
          self |-> [self EXCEPT !.selects = @ + 1]]
    ELSE authenticated(self, token_checked(self, or_default(selected)),
            (IF self._authenticator = 0 THEN 1 ELSE 0)
            + (IF found_invalid(self, or_default(selected)) THEN 1 ELSE 0))

\* get_authenticator(self): the tap or stream after the call, the heap
\* after it, and the error raised if any.
get_authenticator(self, objects) ==
    get_authenticator_from(
        [self EXCEPT
           !.calls = @ + 1,
           !.http_auth = 0,
           !.expired_seen = @ + (IF /\ self._authenticator # 0
                                    /\ self.config.auth_method = "oauth"
                                    /\ ~is_token_valid(objects, self._authenticator)
                                 THEN 1 ELSE 0)],
        objects, first_selection(self, objects))

(***************************************************************************)
(* A run of the tap: discover_streams builds the streams one by one,       *)
(* inferring a schema with get_schema where none is configured, and the    *)
(* sync then drives each stream's request_records.  `http` is the log of   *)
(* the requests sent, token requests included.                             *)
(***************************************************************************)
OAuthKind == "ConfigurableOAuthAuthenticator"

\* The token request of update_access_token in a run: the server issues
\* the token named by its position among the token requests.
TokenIssued(data, a, token) ==
    [op |-> "POST", url |-> "access_token_url", data |-> data, instance |-> a,
     token |-> token]

\* The token request is sent unless building its body raised.
post_token(body, objects, a, log, token) ==
    IF ~body.ok THEN [ok |-> FALSE, err |-> body.err, heap |-> objects, http |-> log]
    ELSE [ok |-> TRUE, err |-> "none",
          heap |-> [objects EXCEPT ![a] = [@ EXCEPT !.access_token = token,
                                                    !.valid = TRUE]],
          http |-> Append(log, TokenIssued(body.val, a, token))]

\* OAuthAuthenticator.update_access_token on authenticator a: the body is
\* built, posted, and the token of the response stored.
update_access_token(my_config, objects, a, log) ==
    post_token(oauth_request_body(my_config.oauth), objects, a, log,
               Cardinality({k \in DOMAIN log : log[k].op = "POST"}) + 1)

\* Mutant: the token is requested at every use.
get_initial_oauth_token_always(my_config, objects, a, log) ==
    update_access_token(my_config, objects, a, log)

\* ConfigurableOAuthAuthenticator.get_initial_oauth_token; the SDK's
\* auth_headers of an OAuth authenticator applies the same validity check.
get_initial_oauth_token(my_config, objects, a, log) ==
    IF ~is_token_valid(objects, a)
    THEN update_access_token(my_config, objects, a, log)
    ELSE [ok |-> TRUE, err |-> "none", heap |-> objects, http |-> log]

\* authenticator.auth_headers: the Authorization header, if the
\* authenticator sets one.
auth_headers(objects, a) ==
    LET kind == IF a = 0 THEN "None" ELSE objects[a].kind
    IN  CASE kind = OAuthKind -> [scheme |-> "Bearer", token |-> objects[a].access_token]
          [] kind = "BearerTokenAuthenticator" -> [scheme |-> "Bearer", token |-> 0]
          [] kind = "BasicAuthenticator" -> [scheme |-> "Basic", token |-> 0]
          [] kind = "APIKeyAuthenticator" -> [scheme |-> "key", token |-> 0]
          [] OTHER -> [scheme |-> "none", token |-> 0]

\* The tap or stream holds an OAuth authenticator whose token is valid.
HoldsValidToken(self, objects) ==
    /\ self._authenticator # 0
    /\ objects[self._authenticator].kind = OAuthKind
    /\ is_token_valid(objects, self._authenticator)

\* A request as the log keeps it: who sent it, with which auth argument
\* and Authorization header, which attempt of the request it was, and
\* whether the sender held a valid token when it set out.
Sent(phase, self, objects, held, attempt, status) ==
    [op |-> "GET", phase |-> phase, auth |-> self.http_auth,
     instance |-> self._authenticator,
     headers |-> auth_headers(objects, self._authenticator),
     held_valid |-> held, attempt |-> attempt, status |-> status]

\* The tap or stream of `got` with the heap and log the token step left.
merged(got, token) ==
    [ok |-> token.ok, err |-> token.err, self |-> got.self, heap |-> token.heap,
     http |-> token.http]

\* The token step of a use of the authenticator `got` has stored: an
\* OAuth authenticator makes sure it holds a valid token.
with_token(my_config, got, log) ==
    IF ~got.ok
    THEN [ok |-> FALSE, err |-> got.err, self |-> got.self, heap |-> got.heap,
          http |-> log]
    ELSE IF my_config.auth_method = "oauth"
            /\ got.heap[got.self._authenticator].kind = OAuthKind
    THEN merged(got, get_initial_oauth_token(my_config, got.heap,
                                             got.self._authenticator, log))
    ELSE [ok |-> TRUE, err |-> "none", self |-> got.self, heap |-> got.heap,
          http |-> log]

\* The request goes out once the authenticator is ready, and the status
\* of the response decides what is raised.
requested(ready, phase, held, status, error) ==
    IF ~ready.ok THEN ready
    ELSE [ready EXCEPT
            !.http = Append(@, Sent(phase, ready.self, ready.heap, held, 1, status)),
            !.ok = (error = "none"),
            !.err = error]

\* TapRestApiMsdk.get_schema up to the response: the authenticator is
\* obtained when auth_method is set and not no_auth, then the sample
\* request is sent; a response that is not ok raises ValueError.
get_schema(self, objects, log, status) ==
    requested(IF self.config.auth_method = "" \/ self.config.auth_method = "no_auth"
              THEN [ok |-> TRUE, err |-> "none", self |-> [self EXCEPT !.http_auth = 0],
                    heap |-> objects, http |-> log]
              ELSE with_token(self.config,
                              get_authenticator([self EXCEPT !.http_auth = 0], objects),
                              log),
              "discovery", HoldsValidToken(self, objects), status,
              IF status = "ok" THEN "none" ELSE "ValueError")

\* RESTStream.validate_response: the error a response raises.
validate_response(status) ==
    CASE status = "retriable" -> "RetriableAPIError"
      [] status = "fatal" -> "FatalAPIError"
      [] OTHER -> "none"

\* RESTStream.prepare_request and one attempt of _request: the
\* authenticator property is read, the SDK takes the headers of the
\* authenticator (an OAuth authenticator fetches a token when it holds no
\* valid one), the request is sent and the response validated.
send_request(self, objects, log, status) ==
    requested(with_token(self.config, get_authenticator(self, objects), log),
              "records", HoldsValidToken(self, objects), status,
              validate_response(status))

\* RestApiStream.request_decorator: the wrapper logs and calls func once;
\* what func raises, the wrapper raises.
request_decorator(self, objects, log, status) == send_request(self, objects, log, status)

\* A tap as constructed, and a stream as discover_streams constructs it
\* with authenticator=self._authenticator.
NewTap(settings) ==
    [config |-> settings, _authenticator |-> 0, http_auth |-> 0, assigned |-> FALSE,
     calls |-> 0, selects |-> 0, expired_seen |-> 0]

NewStream(self) ==
    [config |-> self.config, attrs |-> DynamicStream(self.config.base),
     _authenticator |-> self._authenticator, http_auth |-> 0,
     assigned |-> (self._authenticator # 0),
     calls |-> 0, selects |-> 0, expired_seen |-> 0, state |-> "new", sent |-> 0]


MaxStreams == 2
MaxStreamRequests == 2

\* The configurations of a run.  The OAuth settings are kept together under
\* `oauth`, the settings a stream is built from under `base`, the process
\* environment under `env`; `streams` says for each configured stream
\* whether its schema is configured or to be inferred.
RunConfigs ==
    LET dict(keys) == JDict([i \in 1..Len(keys) |-> <<keys[i], JStr("configured")>>])
        environ(keys) == [i \in 1..Len(keys) |-> <<keys[i], JStr("ambient")>>]
        grant(g) == [grant_type |-> g, client_id |-> JStr("id"),
                     client_secret |-> JStr("secret"), username |-> JNone,
                     password |-> JNone, refresh_token |-> JNone, scope |-> JNone,
                     redirect_uri |-> JNone, oauth_extras |-> JNone]
        plain == {[auth_method |-> m, api_keys |-> JNone, aws_credentials |-> JNone,
                   env |-> <<>>, oauth |-> grant(JNone)] :
                     m \in {"no_auth", "basic", "bearer_token", "bogus", ""}}
        api_key == {[auth_method |-> "api_key", api_keys |-> k, aws_credentials |-> JNone,
                     env |-> <<>>, oauth |-> grant(JNone)] :
                       k \in {JNone, dict(<<"x-api-key">>)}}
        oauth == {[auth_method |-> "oauth", api_keys |-> JNone, aws_credentials |-> JNone,
                   env |-> <<>>, oauth |-> grant(g)] :
                     g \in {JNone, JStr("client_credentials")}}
        aws == {[auth_method |-> "aws", api_keys |-> JNone, aws_credentials |-> c,
                 env |-> e, oauth |-> grant(JNone)] :
                   c \in {JNone, dict(<<>>), dict(<<"aws_access_key_id">>),
                          dict(<<"aws_access_key_id", "aws_secret_access_key">>),
                          dict(<<"aws_profile">>),
                          JDict(<< <<"aws_access_key_id", JStr("configured")>>,
                                   <<"aws_secret_access_key", JStr("configured")>>,
                                   <<"create_signed_credentials", JBool(FALSE)>> >>)},
                   e \in {environ(<<>>), environ(<<"AWS_PROFILE">>),
                          environ(<<"AWS_ACCESS_KEY_ID", "AWS_SECRET_ACCESS_KEY">>)}}
        schemas == UNION {[1..n -> {"configured", "inferred"}] : n \in 1..MaxStreams}
    IN  {[auth_method |-> a.auth_method, api_keys |-> a.api_keys,
          aws_credentials |-> a.aws_credentials, env |-> a.env, oauth |-> a.oauth,
          base |-> [BaseConfig EXCEPT !.pagination_request_style = style],
          streams |-> s] :
            a \in plain \cup api_key \cup oauth \cup aws,
            style \in {"default", "cursor_paginator"},
            s \in schemas}

InitRun ==
    /\ config = BaseConfig
    /\ stream = DynamicStream(BaseConfig)
    /\ paginator = NoPaginator
    /\ prev = NoPaginator
    /\ pc = "discover"
    /\ requests = <<>>
    /\ pages = <<>>
    /\ emitted = <<>>
    /\ lastResp = NoResponse
    /\ err = "none"
    /\ ret = Ok(JNone)
    /\ arg = [fn |-> "run"]
    /\ tap \in {NewTap(c) : c \in RunConfigs}
    /\ streams = <<>>
    /\ heap = <<>>
    /\ http = <<>>

\* The stream the sync is at: the first that is not done, 0 when all are.
Current ==
    IF \E i \in 1..Len(streams) : streams[i].state # "done"
    THEN CHOOSE i \in 1..Len(streams) :
            /\ streams[i].state # "done"
            /\ \A j \in 1..(i - 1) : streams[j].state = "done"
    ELSE 0

\* One iteration of the loop of discover_streams: the schema is inferred
\* by get_schema when the stream has none configured, and the stream is
\* built.
DiscoverStream ==
    /\ pc = "discover"
    /\ arg.fn = "run"
    /\ LET i == Len(streams) + 1
           built(self) ==
                /\ streams' = Append(streams, NewStream(self))
                /\ pc' = IF i = Len(tap.config.streams) THEN "sync" ELSE "discover"
                /\ err' = err
       IN  IF tap.config.streams[i] = "configured"
           THEN /\ built(tap)
                /\ UNCHANGED <<tap, heap, http>>
           ELSE \E status \in {"ok", "retriable"} :
                  \E r \in {get_schema(tap, heap, http, status)} :
                      /\ tap' = r.self
                      /\ heap' = r.heap
                      /\ http' = r.http
                      /\ IF r.ok THEN built(r.self)
                         ELSE /\ pc' = "error"
                              /\ err' = r.err
                              /\ streams' = streams
    /\ UNCHANGED <<config, stream, paginator, prev, requests, pages, emitted, lastResp, ret>>
    /\ UNCHANGED arg

\* request_records of the current stream begins: get_new_paginator.
StartStream ==
    /\ pc = "sync"
    /\ Current # 0
    /\ streams[Current].state = "new"
    /\ \E r \in {get_new_paginator(streams[Current].attrs)} :
           IF r.ok
           THEN /\ streams' = [streams EXCEPT ![Current].state = "running"]
                /\ UNCHANGED <<pc, err>>
           ELSE /\ pc' = "error"
                /\ err' = r.err
                /\ streams' = streams
    /\ UNCHANGED <<config, stream, paginator, prev, requests, pages, emitted, lastResp, ret>>
    /\ UNCHANGED <<arg, tap, heap, http>>

\* One iteration of the request loop of the current stream: the request is
\* prepared and sent through the decorated _request; the paginator says
\* whether there is more.
RequestRecords ==
    /\ pc = "sync"
    /\ Current # 0
    /\ streams[Current].state = "running"
    /\ \E status \in {"ok", "retriable", "fatal"}, more \in BOOLEAN :
         \E r \in {request_decorator(streams[Current], heap, http, status)} :
             /\ heap' = r.heap
             /\ http' = r.http
             /\ IF r.ok
                THEN \E state \in {IF more /\ r.self.sent + 1 < MaxStreamRequests
                                    THEN "running" ELSE "done"} :
                     /\ streams' = [streams EXCEPT
                                       ![Current] = [r.self EXCEPT !.sent = @ + 1,
                                                                   !.state = state]]
                     /\ pc' = IF state = "done" /\ Current = Len(streams)
                              THEN "done" ELSE "sync"
                     /\ err' = err
                ELSE /\ streams' = [streams EXCEPT ![Current] = r.self]
                     /\ pc' = "error"
                     /\ err' = r.err
    /\ UNCHANGED <<config, stream, paginator, prev, requests, pages, emitted, lastResp, ret>>
    /\ UNCHANGED <<arg, tap>>

\* Time passes and the token an OAuth authenticator holds expires.
TokenExpires ==
    /\ pc \in {"discover", "sync"}
    /\ \E a \in 1..Len(heap) :
         /\ heap[a].kind = OAuthKind
         /\ heap[a].valid
         /\ heap' = [heap EXCEPT ![a].valid = FALSE]
    /\ UNCHANGED <<config, stream, paginator, prev, pc, requests, pages, emitted, lastResp,
                   err, ret>>
    /\ UNCHANGED <<arg, tap, streams, http>>

NextRun == DiscoverStream \/ StartStream \/ RequestRecords \/ TokenExpires

SpecRun == InitRun /\ [][NextRun]_vars


(***************************************************************************)
(* Properties of a run.                                                    *)
(***************************************************************************)
Running == arg.fn = "run"

\* The methods select_authenticator knows, no_auth included.
SupportedAuthMethods == {"no_auth", "api_key", "basic", "oauth", "bearer_token", "aws"}

\* C14 as claimed: with an auth_method outside the supported set no HTTP
\* request is ever issued, in discovery or in extraction, and the run
\* cannot complete: it ends with the ValueError of the selection.
C14_UnknownAuthMethodBeforeHttp ==
    (Running /\ tap.config.auth_method \notin SupportedAuthMethods) =>
        /\ http = <<>>
        /\ pc # "done"
        /\ (pc = "error" => err = "ValueError")


\* The styles get_new_paginator knows.
PaginationRequestStyles ==
    {"jsonpath_paginator", "default", "simple_header_paginator", "header_link_paginator",
     "restapi_header_link_paginator", "style1", "offset_paginator", "hateoas_paginator",
     "single_page_paginator", "page_number_paginator", "simple_offset_paginator"}

\* C15 as claimed: with an unknown pagination style (and nothing else wrong
\* in the configuration) no HTTP request is issued for the run, no stream
\* gets a paginator of another style, and the run ends with ValueError.
C15_UnknownStyleBeforeHttp ==
    (/\ Running
     /\ tap.config.auth_method = "no_auth"
     /\ tap.config.base.pagination_request_style \notin PaginationRequestStyles) =>
        /\ http = <<>>
        /\ \A i \in 1..Len(streams) : streams[i].state = "new"
        /\ (pc = "error" => err = "ValueError")

\* The taps and streams of the run.
RunObjects == {tap} \cup {streams[i] : i \in 1..Len(streams)}

\* C16 as claimed: on every tap or stream on which get_authenticator was
\* called, select_authenticator ran once if the object began without an
\* authenticator, plus once for each call that found the stored
\* authenticator expired, for every auth_method.
C16_SelectedOnce ==
    Running =>
        \A o \in RunObjects :
            o.calls >= 1 =>
                o.selects = (IF o.assigned THEN 0 ELSE 1) + o.expired_seen

\* C11 as claimed: a retriable failure reaches the caller only after the
\* request was retried, never on its first attempt.
C11_RetriedBeforeSurfaced ==
    (Running /\ err = "RetriableAPIError") => http[Len(http)].attempt > 1

\* A credential field has a source: the aws_credentials configuration or
\* the environment.
AwsSource(name, envname) ==
    \/ /\ tap.config.aws_credentials.t = "dict"
       /\ HasKey(tap.config.aws_credentials.v, name)
    \/ HasKey(tap.config.env, envname)

AwsFieldValue(name, envname) ==
    IF tap.config.aws_credentials.t = "dict" /\ HasKey(tap.config.aws_credentials.v, name)
    THEN Lookup(tap.config.aws_credentials.v, name)
    ELSE Lookup(tap.config.env, envname)

NoUsableAwsCredentials ==
    /\ ~(/\ AwsSource("aws_access_key_id", "AWS_ACCESS_KEY_ID")
         /\ AwsSource("aws_secret_access_key", "AWS_SECRET_ACCESS_KEY"))
    /\ ~AwsSource("aws_profile", "AWS_PROFILE")

\* C19 as claimed: with auth_method aws the key pair of a signing
\* authenticator comes field by field from aws_credentials when present
\* there and from the environment otherwise; without a usable credential
\* source selection raises nothing and every tap, stream and request has
\* http_auth None.
C19_AwsCredentialSources ==
    (Running /\ tap.config.auth_method = "aws") =>
        /\ \A a \in 1..Len(heap) :
              (/\ heap[a].kind = "AWS4Auth"
               /\ AwsSource("aws_access_key_id", "AWS_ACCESS_KEY_ID")
               /\ AwsSource("aws_secret_access_key", "AWS_SECRET_ACCESS_KEY")) =>
                    /\ heap[a].access_key =
                          AwsFieldValue("aws_access_key_id", "AWS_ACCESS_KEY_ID")
                    /\ heap[a].secret_key =
                          AwsFieldValue("aws_secret_access_key", "AWS_SECRET_ACCESS_KEY")
        /\ NoUsableAwsCredentials =>
              /\ err # "AttributeError"
              /\ \A o \in RunObjects : o.http_auth = 0
              /\ \A k \in DOMAIN http : http[k].auth = 0

\* The token the server issued last to authenticator a before request k.
LastIssued(a, k) ==
    LET posts == {j \in 1..(k - 1) : http[j].op = "POST" /\ http[j].instance = a}
    IN  IF posts = {} THEN 0
        ELSE http[CHOOSE j \in posts : \A i \in posts : i <= j].token

\* C18: with auth_method oauth, a request is preceded by a token request
\* exactly when its sender held no valid token (none yet, or an expired
\* one) when it set out, every token request is made for the request that
\* follows it, and the request carries "Bearer " and the token its
\* authenticator holds, the one issued to it last.
C18_TokenRequests ==
    (Running /\ tap.config.auth_method = "oauth") =>
        \A k \in DOMAIN http :
            IF http[k].op = "GET"
            THEN /\ (k > 1 /\ http[k - 1].op = "POST") <=> ~http[k].held_valid
                 /\ http[k].headers.scheme = "Bearer"
                 /\ http[k].headers.token = LastIssued(http[k].instance, k)
                 /\ http[k].headers.token > 0
                 /\ (k = Len(http) =>
                        http[k].headers.token = heap[http[k].instance].access_token)
            ELSE /\ k < Len(http)
                 /\ http[k + 1].op = "GET"
                 /\ http[k + 1].instance = http[k].instance

\* A run with oauth in which a token was requested at first use, a later
\* request reused the held token, and after an expiry a second token was
\* requested.
C18_Witness ==
    /\ Running
    /\ tap.config.auth_method = "oauth"
    /\ \E i, j, k \in DOMAIN http :
          /\ i < j /\ j < k
          /\ http[i].op = "POST" /\ http[i].token = 1
          /\ http[j].op = "GET" /\ http[j].held_valid /\ http[j - 1].op = "GET"
          /\ http[k].op = "POST"
          /\ http[k + 1].phase = "records"


(***************************************************************************)
(* Arrays, excepted keys and key safety in flatten_json.  The nodes of a   *)
(* record that flatten_json is to emit are read off the record: a node     *)
(* whose joined path is excepted, else a leaf (a value that is no object)  *)
(* outside every excepted subtree.                                         *)
(***************************************************************************)
RECURSIVE EmittedOf(_, _, _)
RECURSIVE EmittedOfItems(_, _, _, _)
\* The nodes to emit below o in document order, each as
\* [path, value, excepted].
EmittedOf(o, path, E) ==
    IF o.t = "dict" THEN EmittedOfItems(o.v, 1, path, E)
    ELSE <<[path |-> path, value |-> o, excepted |-> FALSE]>>

EmittedOfItems(items, i, path, E) ==
    IF i > Len(items) THEN <<>>
    ELSE (IF JoinPath(Append(path, items[i][1]), 1) \in E
          THEN <<[path |-> Append(path, items[i][1]), value |-> items[i][2],
                  excepted |-> TRUE]>>
          ELSE EmittedOf(items[i][2], Append(path, items[i][1]), E))
         \o EmittedOfItems(items, i + 1, path, E)

ArgEmitted == EmittedOf(arg.obj, <<>>, arg.except_keys)

\* The entries flatten_json returned, the raw message apart.
ReturnedEntries ==
    IF pc = "returned" /\ arg.store_raw_json_message
    THEN SelectSeq(ret.val.v, LAMBDA e : e[1] # SdcRawJson)
    ELSE ret.val.v

\* No other emitted node has the key of the i-th.
KeyUnshared(i) ==
    \A j \in 1..Len(ArgEmitted) :
        LeafKey(ArgEmitted[j].path) = LeafKey(ArgEmitted[i].path) => j = i

\* The serialisation of a value as it is expected in the output.
Serialized(x) == [t |-> "json", v |-> x]

\* C21 as claimed: every array of the input, at any depth below objects, is
\* in the output as the serialisation of the whole array under the
\* flattened key of its path.
C21_EveryArraySerialized ==
    FlattenReturned =>
        \A i \in 1..Len(ArgLeaves) :
            ArgLeaves[i][2].t = "list" =>
                /\ HasKey(ret.val.v, LeafKey(ArgLeaves[i][1]))
                /\ Lookup(ret.val.v, LeafKey(ArgLeaves[i][1])) = Serialized(ArgLeaves[i][2])

\* C21 amended: the output has no entries but those of the emitted nodes,
\* so nothing inside an array has an entry of its own, and every array
\* outside the excepted subtrees whose flattened key no other emitted node
\* shares is in the output as the serialisation of the whole array under
\* that key.
C21_ArraysSerializedUnlessHidden ==
    FlattenReturned =>
        /\ Keys(ReturnedEntries) = {LeafKey(ArgEmitted[i].path) : i \in 1..Len(ArgEmitted)}
        /\ Len(ReturnedEntries) <= Len(ArgEmitted)
        /\ \A i \in 1..Len(ArgEmitted) :
              (ArgEmitted[i].value.t = "list" /\ KeyUnshared(i)) =>
                  Lookup(ret.val.v, LeafKey(ArgEmitted[i].path))
                      = Serialized(ArgEmitted[i].value)

\* The record of test_flatten_json: c and d are serialised whole.
C21_Witness ==
    /\ FlattenReturned
    /\ arg.obj = TestRecordFull
    /\ arg.except_keys = {KeyB_C}
    /\ Lookup(ret.val.v, KeyD) = Serialized(JList(<<JInt(4), JInt(5)>>))
    /\ Lookup(ret.val.v, KeyC).t = "json"
    /\ Lookup(ret.val.v, KeyC).v.t = "list"
    /\ Len(ret.val.v) = 7


\* The keys of the nodes strictly below the i-th emitted node.
DescendantKeys(i) ==
    LET below == LeavesOf(ArgEmitted[i].value, ArgEmitted[i].path)
    IN  {LeafKey(below[j][1]) : j \in {n \in 1..Len(below) :
                                          below[n][1] # ArgEmitted[i].path}}

EmittedKeys == {LeafKey(ArgEmitted[i].path) : i \in 1..Len(ArgEmitted)}

\* C22 as claimed: a node whose joined path is in except_keys is in the
\* output under its flattened key with the serialisation of its whole
\* subtree, and no key of a descendant of it is in the output.
C22_ExceptedSubtreeSerialized ==
    FlattenReturned =>
        \A i \in 1..Len(ArgEmitted) :
            ArgEmitted[i].excepted =>
                /\ HasKey(ret.val.v, LeafKey(ArgEmitted[i].path))
                /\ Lookup(ret.val.v, LeafKey(ArgEmitted[i].path))
                      = Serialized(ArgEmitted[i].value)
                /\ DescendantKeys(i) \cap Keys(ReturnedEntries) = {}

\* C22 amended: the keys of the output are those of the emitted nodes, the
\* excepted nodes and the leaves outside excepted subtrees; an excepted
\* node whose flattened key no other emitted node shares holds the
\* serialisation of its whole subtree, and a key of one of its descendants
\* is in the output only as the key of another emitted node.
C22_ExceptedSerializedUnlessShared ==
    FlattenReturned =>
        /\ Keys(ReturnedEntries) = EmittedKeys
        /\ \A i \in 1..Len(ArgEmitted) :
              ArgEmitted[i].excepted =>
                  /\ HasKey(ret.val.v, LeafKey(ArgEmitted[i].path))
                  /\ KeyUnshared(i) =>
                        Lookup(ret.val.v, LeafKey(ArgEmitted[i].path))
                            = Serialized(ArgEmitted[i].value)
                  /\ (DescendantKeys(i) \cap Keys(ReturnedEntries)) \subseteq
                        {LeafKey(ArgEmitted[j].path) : j \in 1..Len(ArgEmitted) \ {i}}

\* The record of test_flatten_json with except_keys ["b_c"]: b_c holds the
\* serialised object and there is no b_c_a or b_c_b.
C22_Witness ==
    /\ FlattenReturned
    /\ arg.obj = TestRecordFull
    /\ arg.except_keys = {KeyB_C}
    /\ Lookup(ret.val.v, KeyB_C)
          = Serialized(JDict(<< <<KeyA, JStr("bacon")>>, <<KeyB, JStr("yum")>> >>))
    /\ ~HasKey(ret.val.v, <<"b", "_", "c", "_", "a">>)
    /\ Lookup(ret.val.v, <<"b", "_", "b", "_", "a">>) = JInt(3)


\* C23: every key of every mapping flatten_json returns, on a record or on
\* its own result, with or without except_keys and raw message, contains
\* neither "." nor "-".
C23_KeysDatabaseSafe ==
    (arg.fn = "flatten_json" /\ pc # "call") =>
        /\ ret.ok
        /\ \A e \in 1..Len(ret.val.v) :
              \A i \in 1..Len(ret.val.v[e][1]) : ret.val.v[e][1][i] \notin {".", "-"}

\* A record with the keys a-b and a.b, a-b excepted: both are written
\* under a_b.
C23_Witness ==
    /\ FlattenReturned
    /\ arg.except_keys = {KeyADashB}
    /\ HasKey(arg.obj.v, KeyADashB)
    /\ HasKey(arg.obj.v, KeyADotB)
    /\ Keys(ReturnedEntries) = {KeyA_B}


\* C24 as claimed: for a top-level input that is no object flatten_json
\* raises a type error and returns no mapping.
C24_NonObjectRaises ==
    (FlattenReturned /\ arg.obj.t # "dict") => (~ret.ok /\ ret.err = "TypeError")

FlattenedAgain == pc = "returned again" /\ arg.fn = "flatten_json"

\* C25 as claimed: for every record and every except_keys list, raw
\* message off, flattening the result again with the same except_keys
\* gives the same result.
C25_Idempotent == FlattenedAgain => ret.val = emitted[1]

\* The record is flat: an object whose values are scalars.
FlatScalarRecord ==
    /\ arg.obj.t = "dict"
    /\ \A i \in 1..Len(arg.obj.v) : arg.obj.v[i][2].t \notin {"dict", "list"}

\* C25 amended: raw message off, flattening the result again with the same
\* except_keys gives the same result whenever no key of the first result is
\* itself listed in except_keys; and a flat record of scalars none of whose
\* keys is excepted or shares its translated key comes back with its keys
\* translated and nothing else changed.
C25_IdempotentUnlessExcepted ==
    /\ FlattenedAgain =>
          (Keys(emitted[1].v) \cap arg.except_keys = {} => ret.val = emitted[1])
    /\ (/\ FlattenReturned
        /\ ~arg.store_raw_json_message
        /\ FlatScalarRecord
        /\ Keys(arg.obj.v) \cap arg.except_keys = {}
        /\ \A i, j \in 1..Len(arg.obj.v) :
              LeafKey(<<arg.obj.v[i][1]>>) = LeafKey(<<arg.obj.v[j][1]>>) => i = j) =>
          ret.val = JDict([i \in 1..Len(arg.obj.v) |->
                              <<LeafKey(<<arg.obj.v[i][1]>>), arg.obj.v[i][2]>>])

\* A record with the excepted key a-b, flattened twice: the second result
\* is the first.
C25_Witness ==
    /\ FlattenedAgain
    /\ arg.except_keys = {KeyADashB}
    /\ HasKey(arg.obj.v, KeyADashB)
    /\ HasKey(emitted[1].v, KeyA_B)
    /\ Lookup(emitted[1].v, KeyA_B).t = "json"
    /\ ret.val = emitted[1]

\* C26: with store_raw_json_message set the result has, beside the entries
\* of the emitted nodes, the key _sdc_raw_json holding the record as
\* given; with it unset the result has the entries of the emitted nodes
\* only; and no step changes the record that was passed.
C26_RawMessage ==
    /\ [](FlattenReturned =>
            /\ ret.ok
            /\ Keys(ReturnedEntries) = EmittedKeys
            /\ IF arg.store_raw_json_message
               THEN /\ HasKey(ret.val.v, SdcRawJson)
                    /\ Lookup(ret.val.v, SdcRawJson) = arg.obj
                    /\ Len(ret.val.v) = Len(ReturnedEntries) + 1
               ELSE /\ ~HasKey(ret.val.v, SdcRawJson)
                    /\ ret.val.v = ReturnedEntries)
    /\ [][arg.fn = "flatten_json" => arg' = arg]_vars

\* The record of test_flatten_json with the raw message kept.
C26_Witness ==
    /\ FlattenReturned
    /\ arg.store_raw_json_message
    /\ arg.obj = TestRecordFull
    /\ Lookup(ret.val.v, SdcRawJson) = TestRecordFull
    /\ Len(ret.val.v) = 8


(***************************************************************************)
(* streams.py: the builders of the request parameters, and get_start_date  *)
(* of utils.py.  A text that is taken apart or put together (a query       *)
(* template, a date, a cursor that holds a URL) is a sequence of words:    *)
(* the separators "?", "&", "=", "T", a placeholder and the percent codes  *)
(* are words of their own.                                                 *)
(***************************************************************************)
\* get_url_params_styles.get(pagination_response_style,
\*                           self._get_url_params_page_style)
get_url_params_styles(pagination_response_style) ==
    CASE pagination_response_style \in {"style1", "offset"} -> "_get_url_params_offset_style"
      [] pagination_response_style = "page" -> "_get_url_params_page_style"
      [] pagination_response_style = "header_link" -> "_get_url_params_header_link"
      [] pagination_response_style = "hateoas_body" -> "_get_url_params_hateoas_body"
      [] OTHER -> "_get_url_params_page_style"

DateWords == {"2024-01-01", "2024-02-02"}

TimeWords == {"10:00:00"}

\* The parse of get_starting_timestamp: a date, or a date and a time with
\* whatever fraction and zone follow; any other text is a ValueError.
parse_datetime(words) ==
    IF Len(words) = 1 /\ words[1] \in DateWords
    THEN Ok([date |-> words[1], time |-> "00:00:00", rest |-> <<>>])
    ELSE IF Len(words) >= 3 /\ words[1] \in DateWords /\ words[2] = "T"
            /\ words[3] \in TimeWords
    THEN Ok([date |-> words[1], time |-> words[3], rest |-> SubSeq(words, 4, Len(words))])
    ELSE Raise("ValueError")

\* .strftime("%Y-%m-%dT%H:%M:%S"): neither fraction nor zone is printed.
strftime(d) == <<d.date, "T", d.time>>

\* self.get_starting_replication_key_value(context): the value the stream
\* state holds for this run, the bookmark of the replication key or else
\* the start_date of the tap configuration; None without a replication key.
get_starting_replication_key_value(self, context) ==
    IF Len(self.replication_key) = 0 THEN JNone
    ELSE IF Truthy(context.replication_key_value) THEN context.replication_key_value
    ELSE context.start_date

\* self.get_starting_timestamp(context)
get_starting_timestamp(self, context) ==
    LET value == get_starting_replication_key_value(self, context)
    IN  IF value.t = "none" THEN Ok(JNone)
        ELSE IF ~self.is_timestamp_replication_key THEN Raise("ValueError")
        ELSE parse_datetime(value.v)

\* Mutant: the stored value is returned as it is, never formatted.
get_start_date_raw(self, context) == get_starting_replication_key_value(self, context)

\* get_start_date(self, context): None.strftime is the AttributeError.
get_start_date(self, context) ==
    LET timestamp == get_starting_timestamp(self, context)
    IN  IF timestamp.ok /\ timestamp.val # JNone
        THEN JText(strftime(timestamp.val))
        ELSE get_starting_replication_key_value(self, context)

Placeholders == {"$last_run_date", "$since"}

\* str(x) of a text or of None, in words.
str_words(x) == IF x.t = "none" THEN <<"None">> ELSE x.v

RECURSIVE substitute_from(_, _, _)
substitute_from(template, i, words) ==
    IF i > Len(template) THEN <<>>
    ELSE (IF template[i] = "$last_run_date" THEN words ELSE <<template[i]>>)
         \o substitute_from(template, i + 1, words)

\* Template(self.source_search_query).substitute(last_run_date=last_run_date):
\* a placeholder of another name is a KeyError.
substitute(template, last_run_date) ==
    IF \E i \in 1..Len(template) :
            template[i] \in Placeholders /\ template[i] # "$last_run_date"
    THEN Raise("KeyError")
    ELSE Ok(JText(substitute_from(template, 1, str_words(last_run_date))))

\* json.loads of a text that is a quoted string or starts with a letter:
\* the string, or a JSONDecodeError.
json_loads(text) ==
    IF Len(text.v) >= 2 /\ text.v[1] = "\"" /\ text.v[Len(text.v)] = "\""
       /\ \A i \in 2..(Len(text.v) - 1) : text.v[i] # "\""
    THEN Ok(JText(SubSeq(text.v, 2, Len(text.v) - 1)))
    ELSE Raise("JSONDecodeError")

\* params[self.source_search_field] = query_template.substitute(...), parsed
\* as JSON when the parameters go into the request body.
search_params(self, params, last_run_date) ==
    LET query == substitute(self.source_search_query.v, last_run_date)
        value == IF ~query.ok THEN query
                 ELSE IF Truthy(self.use_request_body_not_params)
                 THEN json_loads(query.val)
                 ELSE query
    IN  IF value.ok THEN Ok(DictSet(params, self.source_search_field.v, value.val))
        ELSE value

\* `if self.replication_key:` of the page and offset styles: the search
\* field, or else the sort pair.
replication_params(self, params, last_run_date) ==
    IF Len(self.replication_key) = 0 THEN Ok(params)
    ELSE IF Truthy(self.source_search_field) /\ Truthy(self.source_search_query)
            /\ Truthy(last_run_date)
    THEN search_params(self, params, last_run_date)
    ELSE Ok(DictSet(DictSet(params, "sort", JStr("asc")),
                    "order_by", JText(self.replication_key)))

\* `if next_page_token:` of the page and offset styles.
next_page_params(self, params, next_page_token, default_parm) ==
    IF Truthy(next_page_token)
    THEN DictSet(params,
                 IF Truthy(self.pagination_next_page_param)
                 THEN self.pagination_next_page_param.v ELSE default_parm,
                 next_page_token)
    ELSE params

\* Mutant: the cursor always goes under `page`.
get_url_params_page_style_fixed_name(self, context, next_page_token) ==
    replication_params(self,
        IF Truthy(next_page_token) THEN DictSet(self.params, "page", next_page_token)
        ELSE self.params,
        get_start_date(self, context))

\* DynamicStream._get_url_params_page_style(context, next_page_token)
get_url_params_page_style(self, context, next_page_token) ==
    replication_params(self, next_page_params(self, self.params, next_page_token, "page"),
                       get_start_date(self, context))

\* `if self.pagination_page_size is not None:` of the offset style.
limit_params(self, params) ==
    IF self.pagination_page_size.t # "none"
    THEN DictSet(params,
                 IF Truthy(self.pagination_limit_per_page_param)
                 THEN self.pagination_limit_per_page_param.v ELSE "limit",
                 self.pagination_page_size)
    ELSE params

\* Mutant: the page size always goes under `limit`.
get_url_params_offset_style_fixed_name(self, context, next_page_token) ==
    LET paged == next_page_params(self, self.params, next_page_token, "offset")
    IN  replication_params(self,
            IF self.pagination_page_size.t # "none"
            THEN DictSet(paged, "limit", self.pagination_page_size) ELSE paged,
            get_start_date(self, context))

\* DynamicStream._get_url_params_offset_style(context, next_page_token)
get_url_params_offset_style(self, context, next_page_token) ==
    replication_params(self,
        limit_params(self, next_page_params(self, self.params, next_page_token, "offset")),
        get_start_date(self, context))


\* str(next_page_token): the cursor of the header-link paginators is the
\* ParseResult that BaseHATEOASPaginator.get_next makes of the next link.
str_token(next_page_token) ==
    IF next_page_token.t = "ParseResult"
    THEN <<"ParseResult(scheme", "=", "'', netloc='', path='", next_page_token.path,
           "', params='', query='", next_page_token.query, "', fragment='')">>
    ELSE <<next_page_token.v>>

Origins == {"https://example.com"}

\* urlparse(next_page_token) of a text: scheme and host are set apart, the
\* path runs to the first "?", the query is what follows it.
urlparse_text(words) ==
    LET local == IF Len(words) > 0 /\ words[1] \in Origins THEN Tail(words) ELSE words
        marks == {i \in 1..Len(local) : local[i] = "?"}
        first == IF marks = {} THEN Len(local) + 1
                 ELSE CHOOSE i \in marks : \A j \in marks : i <= j
    IN  [path |-> SubSeq(local, 1, first - 1),
         query |-> SubSeq(local, first + 1, Len(local))]

\* unquote of parse_qsl: "+" and "%20" are a blank.
unquote(words) ==
    [i \in 1..Len(words) |-> IF words[i] \in {"+", "%20"} THEN " " ELSE words[i]]

\* One name=value field of parse_qsl: a field with no "=" or with a blank
\* value is left out (keep_blank_values is False).  The names of the model
\* are one word each.
qsl_field(pairs, field) ==
    LET marks == {i \in 1..Len(field) : field[i] = "="}
    IN  IF marks = {} THEN pairs
        ELSE LET first == CHOOSE i \in marks : \A j \in marks : i <= j
                 value == SubSeq(field, first + 1, Len(field))
             IN  IF Len(value) = 0 \/ first # 2 THEN pairs
                 ELSE Append(pairs, <<field[1], JText(unquote(value))>>)

RECURSIVE parse_qsl_from(_, _, _, _)
parse_qsl_from(qs, i, field, pairs) ==
    IF i > Len(qs) THEN qsl_field(pairs, field)
    ELSE IF qs[i] = "&" THEN parse_qsl_from(qs, i + 1, <<>>, qsl_field(pairs, field))
    ELSE parse_qsl_from(qs, i + 1, Append(field, qs[i]), pairs)

\* urllib.parse.parse_qsl(qs): the list of <<name, value>> in order.
parse_qsl(qs) == parse_qsl_from(qs, 1, <<>>, <<>>)

RECURSIVE parse_qs_from(_, _, _)
parse_qs_from(pairs, i, d) ==
    IF i > Len(pairs) THEN d
    ELSE LET k == pairs[i][1]
             values == IF HasKey(d, k) THEN Lookup(d, k).v ELSE <<>>
         IN  parse_qs_from(pairs, i + 1, DictSet(d, k, JList(Append(values, pairs[i][2]))))

\* urllib.parse.parse_qs(qs): every name with the list of its values.
parse_qs(qs) == parse_qs_from(parse_qsl(qs), 1, <<>>)

\* email.utils.format_datetime(since): the RFC 2822 text of the date; a
\* date without a zone is printed with -0000.
format_datetime(since) ==
    JText(<<"rfc2822", since.date, since.time,
            IF Len(since.rest) = 0 THEN "-0000" ELSE "+0000">>)

\* The replication key branches of the header-link style.
header_link_sort(self, params) ==
    IF self.replication_key = UpdatedAt
    THEN DictSet(DictSet(params, "sort", JStr("updated")), "direction",
                 JStr(IF self.use_fake_since_parameter THEN "desc" ELSE "asc"))
    ELSE IF self.replication_key \in {<<"starred", "_", "at">>, <<"created", "_", "at">>}
    THEN DictSet(DictSet(params, "sort", JStr("created")), "direction", JStr("desc"))
    ELSE IF self.replication_key = CommitTimestamp
    THEN DictSet(params, "direction", JStr("desc"))
    ELSE params

\* The parameters of the header-link style before `since`: the static
\* ones, the page size, the parameters of the cursor, the sort.
header_link_params(self, next_page_token) ==
    LET sized == DictSet(self.params,
                         IF Truthy(self.pagination_limit_per_page_param)
                         THEN self.pagination_limit_per_page_param.v ELSE "per_page",
                         IF Truthy(self.pagination_page_size)
                         THEN self.pagination_page_size
                         ELSE JInt(DefaultPaginationPageSize))
    IN  header_link_sort(self,
            IF Truthy(next_page_token)
            THEN dict_update(sized, parse_qs(str_token(next_page_token)), 1)
            ELSE sized)

\* DynamicStream._get_url_params_header_link(context, next_page_token): the
\* parameters returned and self._http_headers after the call.  A ValueError
\* of get_starting_timestamp is not caught.
get_url_params_header_link(self, context, next_page_token) ==
    LET since == get_starting_timestamp(self, context)
    IN  IF ~since.ok THEN [ret |-> since, _http_headers |-> self._http_headers]
        ELSE IF Len(self.replication_key) > 0 /\ since.val # JNone
        THEN [ret |-> Ok(DictSet(header_link_params(self, next_page_token),
                                 IF self.use_fake_since_parameter THEN "fake_since"
                                 ELSE "since",
                                 [t |-> "datetime", v |-> since.val])),
              _http_headers |-> DictSet(self._http_headers, "If-modified-since",
                                        format_datetime(since.val))]
        ELSE [ret |-> Ok(header_link_params(self, next_page_token)),
              _http_headers |-> self._http_headers]

\* DynamicStream.http_headers: User-Agent when the configuration names one,
\* then the static headers of the stream.
http_headers(self) ==
    dict_update(IF Truthy(self.user_agent)
                THEN << <<"User-Agent", self.user_agent>> >> ELSE <<>>,
                self.headers, 1)

\* The `elif self.replication_key:` of the HATEOAS style.
hateoas_search_params(self, params, last_run_date) ==
    IF Truthy(self.source_search_field) /\ Truthy(self.source_search_query)
       /\ Truthy(last_run_date)
    THEN search_params(self, params, last_run_date)
    ELSE IF Truthy(self.source_search_field) /\ Truthy(last_run_date)
    THEN Ok(DictSet(params, self.source_search_field.v,
                    JText(<<"gt">> \o last_run_date.v)))
    ELSE Ok(params)

\* `if self.pagination_page_size and self.pagination_limit_per_page_param:`
hateoas_limit_params(self) ==
    IF Truthy(self.pagination_page_size) /\ Truthy(self.pagination_limit_per_page_param)
    THEN DictSet(self.params, self.pagination_limit_per_page_param.v,
                 self.pagination_page_size)
    ELSE self.params

\* Mutant: the parameters of the cursor replace all that was built.
get_url_params_hateoas_body_cursor_only(self, context, next_page_token) ==
    LET url_parsed == urlparse_text(next_page_token.v)
    IN  IF Truthy(next_page_token)
        THEN [ret |-> Ok(dict_update(<<>>,
                            IF Len(url_parsed.query) > 0 THEN parse_qsl(url_parsed.query)
                            ELSE parse_qsl(url_parsed.path), 1)),
              path |-> IF url_parsed.path = next_page_token.v THEN <<>>
                       ELSE url_parsed.path]
        ELSE IF Len(self.replication_key) > 0
        THEN [ret |-> hateoas_search_params(self, hateoas_limit_params(self),
                                            get_start_date(self, context)),
              path |-> self.path]
        ELSE [ret |-> Ok(hateoas_limit_params(self)), path |-> self.path]

\* DynamicStream._get_url_params_hateoas_body(context, next_page_token): the
\* parameters returned and self.path after the call.
get_url_params_hateoas_body(self, context, next_page_token) ==
    LET url_parsed == urlparse_text(next_page_token.v)
    IN  IF Truthy(next_page_token)
        THEN [ret |-> Ok(dict_update(hateoas_limit_params(self),
                            IF Len(url_parsed.query) > 0 THEN parse_qsl(url_parsed.query)
                            ELSE parse_qsl(url_parsed.path), 1)),
              path |-> IF url_parsed.path = next_page_token.v THEN <<>>
                       ELSE url_parsed.path]
        ELSE IF Len(self.replication_key) > 0
        THEN [ret |-> hateoas_search_params(self, hateoas_limit_params(self),
                                            get_start_date(self, context)),
              path |-> self.path]
        ELSE [ret |-> Ok(hateoas_limit_params(self)), path |-> self.path]


(***************************************************************************)
(* The builders called directly, as test_get_url_params_default and        *)
(* test_get_url_params_style1 call them: a stream built from its settings, *)
(* the state of the stream, and one cursor.                                *)
(***************************************************************************)
KeyUpdated == <<"updated">>

KeyThree == <<"key3">>

StaticParams ==
    {<<>>,
     << <<"page", JStr("1")>>, <<"q", JStr("x")>>, <<"sort", JStr("desc")>> >>}

SearchTemplate == JText(<<"gt", "$last_run_date">>)

QuotedSearchTemplate == JText(<<"\"", "$last_run_date", "\"">>)

\* <<source_search_field, source_search_query, use_request_body_not_params>>:
\* neither field nor template (tap.py passes ""), a template sent as a query
\* parameter or in the body, a template that is JSON sent either way, a
\* template with a placeholder of another name, and the field alone.
SearchSettings ==
    {<<JStr(""), JStr(""), FALSE>>,
     <<JStr("last-updated"), SearchTemplate, FALSE>>,
     <<JStr("last-updated"), SearchTemplate, TRUE>>,
     <<JStr("q"), QuotedSearchTemplate, FALSE>>,
     <<JStr("q"), QuotedSearchTemplate, TRUE>>,
     <<JStr("last-updated"), JText(<<"gt", "$since">>), FALSE>>,
     <<JStr("last-updated"), JStr(""), FALSE>>}

\* The settings of one stream as discover_streams resolves them.
ParamsConfig(request_style, response_style, params, size, limit_param, next_param,
             key, search, timestamp, headers) ==
    [BaseConfig EXCEPT !.pagination_request_style = request_style,
                       !.pagination_initial_offset = 0,
                       !.params = params,
                       !.pagination_page_size = size,
                       !.pagination_limit_per_page_param = limit_param,
                       !.replication_key = key]
    @@ [pagination_response_style |-> response_style,
        pagination_next_page_param |-> next_param,
        source_search_field |-> search[1],
        source_search_query |-> search[2],
        use_request_body_not_params |-> JBool(search[3]),
        is_timestamp_replication_key |-> timestamp,
        headers |-> headers,
        path |-> <<"/items">>]

AcceptHeaders == << <<"Accept", JStr("application/json")>> >>

\* Streams of the header-link style: GitHub's replication keys, no search
\* field, static headers or none.
HeaderLinkParamsConfigs ==
    {ParamsConfig(request_style, "header_link", params, size, limit_param, JNone,
                  key, <<JStr(""), JStr(""), FALSE>>, timestamp, headers) :
        request_style \in {"default", "restapi_header_link_paginator"},
        params \in StaticParams,
        size \in {JNone, JInt(1)},
        limit_param \in {JNone, JStr("size")},
        key \in {<<>>, UpdatedAt, CommitTimestamp, KeyThree},
        timestamp \in BOOLEAN,
        headers \in {<<>>, AcceptHeaders}}

ParamsConfigs ==
    {ParamsConfig(request_style, response_style, params, size, limit_param, next_param,
                  key, search, timestamp, AcceptHeaders) :
        request_style \in {"default", "style1"},
        response_style \in {"default", "style1", "hateoas_body"},
        params \in StaticParams,
        size \in {JNone, JInt(1)},
        limit_param \in {JNone, JStr("size")},
        next_param \in {JNone, JStr("cursor")},
        key \in {<<>>, KeyUpdated, KeyThree},
        search \in SearchSettings,
        timestamp \in BOOLEAN}
    \cup HeaderLinkParamsConfigs

\* The fields of the stream that the builders read, beside those of
\* DynamicStream.__init__ above.
ParamsStream(settings) ==
    DynamicStream(settings)
    @@ [path |-> settings.path,
        pagination_next_page_param |-> settings.pagination_next_page_param,
        pagination_limit_per_page_param |-> settings.pagination_limit_per_page_param,
        source_search_field |-> settings.source_search_field,
        source_search_query |-> settings.source_search_query,
        use_request_body_not_params |-> settings.use_request_body_not_params,
        is_timestamp_replication_key |-> settings.is_timestamp_replication_key,
        headers |-> settings.headers,
        user_agent |-> JNone,
        _http_headers |-> <<>>,
        get_url_params |->
            IF Truthy(settings.use_request_body_not_params)
            THEN "RESTStream.get_url_params"
            ELSE get_url_params_styles(settings.pagination_response_style),
        prepare_request_payload |->
            IF Truthy(settings.use_request_body_not_params)
            THEN get_url_params_styles(settings.pagination_response_style)
            ELSE "RESTStream.prepare_request_payload"]

\* The builder that __init__ installed, as get_url_params or as
\* prepare_request_payload.
builder(self) ==
    IF Truthy(self.use_request_body_not_params) THEN self.prepare_request_payload
    ELSE self.get_url_params

\* Mutant: the parameters go into the query string in either mode.
prepare_request_in_query(self, built) ==
    [path |-> self.path,
     params |-> built,
     json |-> IF Truthy(self.use_request_body_not_params) THEN built ELSE JNone,
     headers |-> http_headers(self)]

\* RestApiStream.prepare_request: the request made of the path, of what
\* get_url_params returns (nothing when the builder is not installed there),
\* of what prepare_request_payload returns (None likewise) and of
\* http_headers; `built` is what the builder returned.
prepare_request(self, built) ==
    [path |-> self.path,
     params |-> IF Truthy(self.use_request_body_not_params) THEN <<>> ELSE built,
     json |-> IF Truthy(self.use_request_body_not_params) THEN built ELSE JNone,
     headers |-> http_headers(self)]

\* The requests after one more was prepared; none when the builder raised.
Prepared(self, built) ==
    IF built.ok THEN Append(requests, prepare_request(self, built.val)) ELSE requests

\* The builder of the stream called: what it returns, and self.path and
\* self._http_headers after the call.
build_params(self, context, next_page_token) ==
    CASE builder(self) = "_get_url_params_hateoas_body" ->
            [_http_headers |-> self._http_headers]
            @@ get_url_params_hateoas_body(self, context, next_page_token)
      [] builder(self) = "_get_url_params_header_link" ->
            [path |-> self.path]
            @@ get_url_params_header_link(self, context, next_page_token)
      [] builder(self) = "_get_url_params_offset_style" ->
            [ret |-> get_url_params_offset_style(self, context, next_page_token),
             path |-> self.path, _http_headers |-> self._http_headers]
      [] OTHER ->
            [ret |-> get_url_params_page_style(self, context, next_page_token),
             path |-> self.path, _http_headers |-> self._http_headers]

BookmarkDate == JText(<<"2024-02-02", "T", "10:00:00", "+00:00">>)

StartDate == JText(<<"2024-01-01">>)

\* The state of the stream: no bookmark with and without a start_date in
\* the configuration, a bookmark that is a date, a bookmark that is none.
Contexts ==
    {[replication_key_value |-> JNone, start_date |-> JNone],
     [replication_key_value |-> JNone, start_date |-> StartDate],
     [replication_key_value |-> BookmarkDate, start_date |-> StartDate],
     [replication_key_value |-> JText(<<"42">>), start_date |-> JNone]}

\* Cursors of the page and offset styles: none, a token, an offset.
PlainCursors == {JNone, JStr("abc"), JInt(0), JInt(2)}

FullUrlCursor ==
    JText(<<"https://example.com", "/items/2", "?", "page", "=", "2", "&",
            "q", "=", "a", "%20", "b">>)

PathQueryCursor ==
    JText(<<"/next", "?", "page", "=", "3", "&", "size", "=", "5", "&", "e", "=">>)

\* Cursors of the HATEOAS style: none, a URL, a path with a query, a bare
\* query with and without "?", a bare path.
UrlCursors ==
    {JNone, FullUrlCursor, PathQueryCursor,
     JText(<<"?", "page", "=", "2">>),
     JText(<<"page", "=", "2">>),
     JText(<<"/items/2">>)}

InitParams ==
    /\ config \in ParamsConfigs
    /\ stream = ParamsStream(config)
    /\ paginator = NoPaginator
    /\ prev = NoPaginator
    /\ pc = "call"
    /\ requests = <<>>
    /\ pages = <<>>
    /\ emitted = <<>>
    /\ lastResp = NoResponse
    /\ err = "none"
    /\ ret = Ok(JNone)
    /\ \E context \in Contexts :
        arg = [fn |-> "get_url_params", context |-> context, next_page_token |-> JNone]
    /\ tap = NoTap
    /\ streams = <<>>
    /\ heap = <<>>
    /\ http = <<>>

\* self._get_url_params_page_style(context, next_page_token)
CallPageStyle ==
    /\ pc = "call"
    /\ arg.fn = "get_url_params"
    /\ builder(stream) = "_get_url_params_page_style"
    /\ \E next_page_token \in PlainCursors :
        /\ arg' = [arg EXCEPT !.next_page_token = next_page_token]
        /\ \E r \in {get_url_params_page_style(stream, arg.context, next_page_token)} :
            /\ ret' = r
            /\ requests' = Prepared(stream, r)
    /\ pc' = "returned"
    /\ UNCHANGED <<config, stream, paginator, prev, pages, emitted, lastResp, err>>
    /\ UNCHANGED <<tap, streams, heap, http>>

\* self._get_url_params_offset_style(context, next_page_token)
CallOffsetStyle ==
    /\ pc = "call"
    /\ arg.fn = "get_url_params"
    /\ builder(stream) = "_get_url_params_offset_style"
    /\ \E next_page_token \in PlainCursors :
        /\ arg' = [arg EXCEPT !.next_page_token = next_page_token]
        /\ \E r \in {get_url_params_offset_style(stream, arg.context, next_page_token)} :
            /\ ret' = r
            /\ requests' = Prepared(stream, r)
    /\ pc' = "returned"
    /\ UNCHANGED <<config, stream, paginator, prev, pages, emitted, lastResp, err>>
    /\ UNCHANGED <<tap, streams, heap, http>>

\* self._get_url_params_hateoas_body(context, next_page_token)
CallHateoasBody ==
    /\ pc = "call"
    /\ arg.fn = "get_url_params"
    /\ builder(stream) = "_get_url_params_hateoas_body"
    /\ \E next_page_token \in UrlCursors :
        \E r \in {get_url_params_hateoas_body(stream, arg.context, next_page_token)} :
            /\ arg' = [arg EXCEPT !.next_page_token = next_page_token]
            /\ ret' = r.ret
            /\ requests' = Prepared(stream, r.ret)
            /\ stream' = [stream EXCEPT !.path = r.path]
    /\ pc' = "returned"
    /\ UNCHANGED <<config, paginator, prev, pages, emitted, lastResp, err>>
    /\ UNCHANGED <<tap, streams, heap, http>>

\* Cursors of the header-link style: none, and the ParseResult of the query
\* string that get_next_url returns.
LinkCursors == {JNone, urlparse(JStr("page=2"))}

\* self._get_url_params_header_link(context, next_page_token)
CallHeaderLink ==
    /\ pc = "call"
    /\ arg.fn = "get_url_params"
    /\ builder(stream) = "_get_url_params_header_link"
    /\ \E next_page_token \in LinkCursors :
        \E r \in {get_url_params_header_link(stream, arg.context, next_page_token)} :
            /\ arg' = [arg EXCEPT !.next_page_token = next_page_token]
            /\ ret' = r.ret
            /\ requests' = Prepared(stream, r.ret)
            /\ stream' = [stream EXCEPT !._http_headers = r._http_headers]
    /\ pc' = "returned"
    /\ UNCHANGED <<config, paginator, prev, pages, emitted, lastResp, err>>
    /\ UNCHANGED <<tap, streams, heap, http>>

\* The stream is run again after the run that made the calls above: the
\* first request of a run is prepared with no cursor.
RestartStream ==
    /\ pc = "returned"
    /\ arg.fn = "get_url_params"
    /\ \E r \in {build_params(stream, arg.context, JNone)} :
        /\ ret' = r.ret
        /\ requests' = Prepared(stream, r.ret)
        /\ stream' = [stream EXCEPT !.path = r.path, !._http_headers = r._http_headers]
    /\ pc' = "restarted"
    /\ UNCHANGED <<config, paginator, prev, pages, emitted, lastResp, err>>
    /\ UNCHANGED runVars

NextParams ==
    CallPageStyle \/ CallOffsetStyle \/ CallHateoasBody \/ CallHeaderLink \/ RestartStream

SpecParams == InitParams /\ [][NextParams]_vars

ParamsReturned == arg.fn = "get_url_params" /\ pc = "returned"

\* The stream as __init__ left it: only self.path is ever assigned later.
self0 == ParamsStream(config)

\* get_start_date(self, context) of the call.
last_run_date == get_start_date(self0, arg.context)


\* The custom search field applies: field and template are configured and
\* there is a last replication value.
SearchApplies ==
    /\ Len(self0.replication_key) > 0
    /\ Truthy(self0.source_search_field)
    /\ Truthy(self0.source_search_query)
    /\ Truthy(last_run_date)

\* The name the cursor goes under.
NextPageParm(default_parm) ==
    IF Truthy(self0.pagination_next_page_param)
    THEN self0.pagination_next_page_param.v ELSE default_parm

SortPair == Len(self0.replication_key) > 0 /\ ~SearchApplies

\* The returned parameters are the static ones overlaid with `overlay`, a
\* function from names to values, and with the sort pair when sort_pair
\* says so: these names and no others, each with its value, the static ones
\* in their places.
OverlaidWith(overlay, sort_pair) ==
    LET static == self0.params
        sorted == IF sort_pair THEN {"sort", "order_by"} ELSE {}
    IN  /\ ret.ok
        /\ Keys(ret.val) = Keys(static) \cup DOMAIN overlay \cup sorted
        /\ Len(ret.val) = Cardinality(Keys(ret.val))
        /\ \A i \in 1..Len(static) : ret.val[i][1] = static[i][1]
        /\ \A k \in Keys(ret.val) :
            Lookup(ret.val, k) =
                IF k = "sort" /\ sort_pair THEN JStr("asc")
                ELSE IF k = "order_by" /\ sort_pair THEN JText(self0.replication_key)
                ELSE IF k \in DOMAIN overlay THEN overlay[k]
                ELSE Lookup(static, k)

IsOverlay(overlay) == OverlaidWith(overlay, SortPair)

PageStyleReturned == ParamsReturned /\ builder(stream) = "_get_url_params_page_style"

NoOverlay == [k \in {} |-> JNone]

\* C27 as claimed: the page style returns the static parameters, overlaid
\* with the cursor under pagination_next_page_param (default `page`) whenever
\* a cursor is given, whatever its value, and with sort="asc" and
\* order_by=<replication key> when a replication key is configured and no
\* custom search field applies.
C27_PageStyleParams ==
    (PageStyleReturned /\ ~SearchApplies) =>
        IsOverlay(IF arg.next_page_token # JNone
                  THEN [k \in {NextPageParm("page")} |-> arg.next_page_token]
                  ELSE NoOverlay)

\* C27 amended: the cursor is overlaid when it is truthy; a cursor that is
\* None, 0 or the empty string adds no parameter.  The rest as claimed.
C27_PageStyleParamsTruthyCursor ==
    (PageStyleReturned /\ ~SearchApplies) =>
        IsOverlay(IF Truthy(arg.next_page_token)
                  THEN [k \in {NextPageParm("page")} |-> arg.next_page_token]
                  ELSE NoOverlay)

\* The case of the spec: no static parameters, cursor "abc", replication key
\* "updated", no search field; exactly page, sort and order_by come back.
C27_Witness ==
    /\ PageStyleReturned
    /\ config.params = <<>>
    /\ ~Truthy(config.pagination_next_page_param)
    /\ ~Truthy(config.source_search_field)
    /\ arg.next_page_token = JStr("abc")
    /\ config.replication_key = KeyUpdated
    /\ ret = Ok(<< <<"page", JStr("abc")>>, <<"sort", JStr("asc")>>,
                   <<"order_by", JText(KeyUpdated)>> >>)


OffsetStyleReturned ==
    ParamsReturned /\ builder(stream) = "_get_url_params_offset_style"

\* The overlay of the offset style: the cursor when has_cursor, the page
\* size when has_size.
OffsetOverlay(has_cursor, has_size) ==
    LET cursor == IF has_cursor THEN {NextPageParm("offset")} ELSE {}
        limit == IF Truthy(self0.pagination_limit_per_page_param)
                 THEN self0.pagination_limit_per_page_param.v ELSE "limit"
        size == IF has_size THEN {limit} ELSE {}
    IN  [k \in cursor \cup size |->
            IF k \in size THEN self0.pagination_page_size ELSE arg.next_page_token]

SearchConfigured ==
    /\ Len(self0.replication_key) > 0
    /\ Truthy(self0.source_search_field)
    /\ Truthy(self0.source_search_query)

\* The last replication value: the stored bookmark, else the configured
\* start date, else None.
LastValue ==
    IF Truthy(arg.context.replication_key_value) THEN arg.context.replication_key_value
    ELSE arg.context.start_date

\* The template with its one placeholder replaced by `words`.
Filled(words) ==
    LET template == self0.source_search_query.v
        at == CHOOSE i \in 1..Len(template) : template[i] \in Placeholders
    IN  SubSeq(template, 1, at - 1) \o words \o SubSeq(template, at + 1, Len(template))

\* ISO-8601 texts of a stored value: the value itself when it is a date or
\* a date and time, and its rendering as date "T" time.
IsoTexts(value) ==
    IF value.t = "text" /\ parse_datetime(value.v).ok
    THEN {value.v, strftime(parse_datetime(value.v).val)}
    ELSE {}

\* No sort pair was added: what `sort` and `order_by` hold, if anything, is
\* what the static parameters or the search field put there.
NoSortPair ==
    /\ ret.ok
    /\ \A k \in {"sort", "order_by"} :
        HasKey(ret.val, k) =>
            \/ HasKey(self0.params, k) /\ Lookup(ret.val, k) = Lookup(self0.params, k)
            \/ self0.source_search_field = JStr(k)

SortPairAdded ==
    /\ ret.ok
    /\ HasKey(ret.val, "sort") /\ Lookup(ret.val, "sort") = JStr("asc")
    /\ HasKey(ret.val, "order_by")
    /\ Lookup(ret.val, "order_by") = JText(self0.replication_key)

PageOrOffsetReturned == PageStyleReturned \/ OffsetStyleReturned

\* C29 as claimed: with a replication key, source_search_field and
\* source_search_query configured, the parameters hold under
\* source_search_field the template with its placeholder replaced by the
\* last replication value in ISO-8601 form, and no sort pair is added; the
\* sort pair is added only when no custom search field is configured.
C29_SearchFieldTemplated ==
    PageOrOffsetReturned =>
        /\ SearchConfigured =>
            /\ ret.ok
            /\ HasKey(ret.val, self0.source_search_field.v)
            /\ \E words \in IsoTexts(LastValue) :
                Lookup(ret.val, self0.source_search_field.v) = JText(Filled(words))
            /\ NoSortPair
        /\ SortPairAdded => ~Truthy(self0.source_search_field)

\* C29 amended: the search field is set when, beside the three settings,
\* there is a last replication value; the value is rendered as date "T"
\* time when the replication key is of timestamp type and the value parses
\* as a date, and is substituted as stored otherwise; the text is parsed as
\* JSON when the parameters go into the request body, and a placeholder of
\* another name is a KeyError.  No sort pair is added then.  Without a last
\* replication value the sort pair is added although a search field is
\* configured, and the search field is not set.
C29_SearchFieldWhenLastValue ==
    PageOrOffsetReturned =>
        /\ (SearchConfigured /\ Truthy(LastValue)) =>
            LET parsed == parse_datetime(LastValue.v)
                words == IF self0.is_timestamp_replication_key /\ parsed.ok
                         THEN strftime(parsed.val) ELSE LastValue.v
                template == self0.source_search_query.v
                field == self0.source_search_field.v
            IN  IF \A i \in 1..Len(template) : template[i] # "$last_run_date"
                THEN ret = Raise("KeyError")
                ELSE IF Truthy(self0.use_request_body_not_params)
                THEN IF self0.source_search_query = QuotedSearchTemplate
                     THEN /\ NoSortPair
                          /\ HasKey(ret.val, field)
                          /\ Lookup(ret.val, field) = JText(words)
                     ELSE ret = Raise("JSONDecodeError")
                ELSE /\ NoSortPair
                     /\ HasKey(ret.val, field)
                     /\ Lookup(ret.val, field) = JText(Filled(words))
        /\ (SearchConfigured /\ ~Truthy(LastValue)) =>
            /\ SortPairAdded
            /\ HasKey(ret.val, self0.source_search_field.v) =>
                /\ HasKey(self0.params, self0.source_search_field.v)
                /\ Lookup(ret.val, self0.source_search_field.v)
                    = Lookup(self0.params, self0.source_search_field.v)
        /\ SortPairAdded => ~(SearchConfigured /\ Truthy(LastValue))

\* A bookmark with a zone, a replication key of timestamp type and the
\* template gt$last_run_date: the search field holds the date without the
\* zone, and there is no sort pair.
C29_Witness ==
    /\ PageStyleReturned
    /\ config.replication_key = KeyUpdated
    /\ config.source_search_query = SearchTemplate
    /\ ~config.use_request_body_not_params.v
    /\ config.is_timestamp_replication_key
    /\ arg.context.replication_key_value = BookmarkDate
    /\ ret.ok
    /\ Lookup(ret.val, "last-updated") = JText(<<"gt", "2024-02-02", "T", "10:00:00">>)
    /\ ~HasKey(ret.val, "order_by")


HateoasBodyReturned ==
    ParamsReturned /\ builder(stream) = "_get_url_params_hateoas_body"

\* The cursors that hold a path and a query string, read by hand: the path,
\* and the names of the query string with their decoded values (a name with
\* a blank value is no part of the parsed query string).
CursorUrls ==
    << <<FullUrlCursor, <<"/items/2">>,
         << <<"page", JText(<<"2">>)>>, <<"q", JText(<<"a", " ", "b">>)>> >> >>,
       <<PathQueryCursor, <<"/next">>,
         << <<"page", JText(<<"3">>)>>, <<"size", JText(<<"5">>)>> >> >> >>

\* The parameters built before the cursor is read: the static ones, and
\* the page size under pagination_limit_per_page_param when both are set.
BuiltBefore ==
    IF Truthy(self0.pagination_page_size) /\ Truthy(self0.pagination_limit_per_page_param)
    THEN DictSet(self0.params, self0.pagination_limit_per_page_param.v,
                 self0.pagination_page_size)
    ELSE self0.params

HeaderLinkReturned ==
    ParamsReturned /\ builder(stream) = "_get_url_params_header_link"

\* The names of the conditional-request header, in either spelling.
IfModifiedSince == {"If-Modified-Since", "If-modified-since"}

\* C31 as claimed: in the header-link style, when a replication key is
\* configured and a replication start value exists, the request that goes
\* out carries the `since` parameter, and the headers that http_headers
\* returns for it include If-Modified-Since.
C31_IfModifiedSinceSent ==
    (/\ HeaderLinkReturned
     /\ Len(self0.replication_key) > 0
     /\ Truthy(get_starting_replication_key_value(self0, arg.context))
     /\ ret.ok) =>
        /\ HasKey(ret.val, "since")
        /\ \E name \in IfModifiedSince : HasKey(http_headers(stream), name)


\* The stream of the same settings without use_request_body_not_params, and
\* what its builder returns for the cursor and state of the call.
QueryModeStream == ParamsStream([config EXCEPT !.use_request_body_not_params = JBool(FALSE)])

QueryModeParams == build_params(QueryModeStream, arg.context, arg.next_page_token).ret

BodyModeReturned == ParamsReturned /\ Truthy(self0.use_request_body_not_params)

\* C32 as claimed: with use_request_body_not_params the request is prepared
\* with, as its body, exactly the parameters that the same settings, cursor
\* and state give as query parameters without it, and with no query
\* parameters.
C32_BodyCarriesSameParams ==
    (BodyModeReturned /\ QueryModeParams.ok) =>
        /\ Len(requests) = 1
        /\ requests[1].json = QueryModeParams.val
        /\ requests[1].params = <<>>

\* C32 amended: the body has the names of the query mode, in the same
\* places, and the same value under every name but source_search_field,
\* where it holds the JSON parse of the text that the query mode sends; when
\* that text is no JSON the builder raises JSONDecodeError and no request is
\* prepared.  With no search field set the two parameter sets are
\* identical.  Nothing of it goes into the query string.
C32_BodyCarriesParamsSearchParsed ==
    (BodyModeReturned /\ QueryModeParams.ok) =>
        LET query == QueryModeParams.val
            field == self0.source_search_field
        IN  IF ret.ok
            THEN /\ Len(requests) = 1
                 /\ requests[1].params = <<>>
                 /\ requests[1].json = ret.val
                 /\ Len(ret.val) = Len(query)
                 /\ \A i \in 1..Len(query) :
                     /\ ret.val[i][1] = query[i][1]
                     /\ \/ ret.val[i][2] = query[i][2]
                        \/ /\ field = JStr(query[i][1])
                           /\ SearchApplies
                           /\ json_loads(query[i][2]) = Ok(ret.val[i][2])
                 /\ ~SearchApplies => ret.val = query
            ELSE /\ requests = <<>>
                 /\ ret = Raise("JSONDecodeError")
                 /\ SearchApplies
                 /\ ~json_loads(Lookup(query, field.v)).ok

\* A stream of the page style that sends its parameters in the body, with
\* static parameters, a cursor and a replication key: the body holds them
\* all and the query string nothing.
C32_Witness ==
    /\ BodyModeReturned
    /\ builder(stream) = "_get_url_params_page_style"
    /\ stream.get_url_params = "RESTStream.get_url_params"
    /\ arg.next_page_token = JStr("abc")
    /\ ~SearchApplies
    /\ Len(requests) = 1
    /\ requests[1].params = <<>>
    /\ requests[1].json = << <<"page", JStr("abc")>>, <<"q", JStr("x")>>,
                             <<"sort", JStr("asc")>>,
                             <<"order_by", JText(KeyUpdated)>> >>


(***************************************************************************)
(* Discovery: discover_streams resolves each configured stream entry       *)
(* against the top-level settings, infers a schema with get_schema where   *)
(* the entry configures none, and builds the stream.  The settings of the  *)
(* tap and of an entry are dicts keyed by setting name.                    *)
(***************************************************************************)
\* d.get(k, default) for a sequence of pairs.
dict_get(d, k, default) == IF HasKey(d, k) THEN Lookup(d, k) ELSE default

\* stream.get(k, self.config.get(k, default)): the value of the entry when
\* the entry has the key, the top-level value otherwise.
resolve(self, entry, k, default) ==
    dict_get(entry, k, dict_get(self.config.top, k, default))

\* {**self.config.get(k, {}), **stream.get(k, {})}: a new dict, the keys
\* of the top level first, an entry's value replacing a top-level one.
merge(self, entry, k) ==
    dict_update(dict_get(self.config.top, k, JDict(<<>>)).v,
                dict_get(entry, k, JDict(<<>>)).v, 1)

\* genson's SchemaBuilder after add_schema of an object schema without
\* properties: no object seen yet.  `objects` lists what add_object was
\* given.
SchemaBuilder == [seen |-> FALSE, required |-> {}, properties |-> {}, objects |-> <<>>]

\* builder.add_object(obj): the keys of obj join the properties; required
\* is the keys of the first object and is intersected with the keys of
\* every later one.
add_object(sb, obj) ==
    [seen |-> TRUE,
     required |-> IF sb.seen THEN sb.required \cap Keys(obj.v)
                  ELSE Keys(obj.v),
     properties |-> sb.properties \cup Keys(obj.v),
     objects |-> Append(sb.objects, obj)]

\* builder.to_schema(): the properties by name, and the required list
\* (left out of the schema when it is empty).
to_schema(sb) ==
    [t |-> "schema", properties |-> sb.properties, required |-> sb.required]

\* builder.add_schema(schema_config) on a new builder.
add_schema(schema_config) ==
    [seen |-> TRUE, required |-> schema_config.required,
     properties |-> schema_config.properties, objects |-> <<>>]

RawJsonObject == JDict(<< <<SdcRawJson, JDict(<<>>)>> >>)

RECURSIVE infer(_, _, _, _, _, _)
\* The loop of get_schema over enumerate(records), from index i (counted
\* from 0) on: a record that is no dict raises; the flattened record is
\* added, then the raw-message object if the tap stores raw messages, and
\* the loop breaks once i has reached inference_records.
infer(self, records, i, except_keys, inference_records, sb) ==
    IF i >= Len(records) THEN Ok(sb)
    ELSE IF records[i + 1].t # "dict" THEN Raise("ValueError")
    ELSE LET flat_record == flatten_json(records[i + 1], except_keys, FALSE)
             added == add_object(sb, flat_record)
             with_raw == IF Truthy(self.config.store_raw_json_message)
                         THEN add_object(added, RawJsonObject)
                         ELSE added
         IN  IF i >= inference_records THEN Ok(with_raw)
             ELSE infer(self, records, i + 1, except_keys, inference_records, with_raw)

Authorization == "Authorization"

\* getattr(self._authenticator, "auth_headers", {}) as a dict.
auth_headers_dict(objects, a) ==
    IF auth_headers(objects, a).scheme = "none" THEN <<>>
    ELSE << <<Authorization, JStr(auth_headers(objects, a).scheme)>> >>

\* get_schema, `headers.update(...)`: with an auth_method that is set and
\* not no_auth, the headers of the authenticator are written into the dict
\* the caller passed.
headers_updated(self, objects, headers) ==
    IF self.config.auth_method = "" \/ self.config.auth_method = "no_auth" THEN headers
    ELSE dict_update(headers, auth_headers_dict(objects, self._authenticator), 1)

\* get_schema from the response on: the records are taken from an ok
\* response and fed to a new builder; the schema is returned.
schema_of(self, response, except_keys, inference_records) ==
    LET fed == infer(self, response.records, 0, except_keys, inference_records,
                     SchemaBuilder)
    IN  IF fed.ok THEN Ok([schema |-> to_schema(fed.val), objects |-> fed.val.objects])
        ELSE fed

\* DynamicStream(...) as discover_streams calls it: the settings resolved
\* for the entry, the dicts get_schema was given, and the tap's
\* authenticator.
discovered_stream(self, entry, params, headers, schema, objects) ==
    [name |-> Lookup(entry, "name"),
     path |-> resolve(self, entry, "path", JStr("")),
     params |-> params,
     headers |-> headers,
     records_path |-> resolve(self, entry, "records_path", JStr("$[*]")),
     primary_keys |-> resolve(self, entry, "primary_keys", JList(<<>>)),
     replication_key |-> resolve(self, entry, "replication_key", JStr("")),
     except_keys |-> resolve(self, entry, "except_keys", [t |-> "keys", v |-> {}]),
     schema |-> schema,
     sampled |-> objects,
     store_raw_json_message |-> self.config.store_raw_json_message,
     _authenticator |-> self._authenticator]

DefaultNumInferenceRecords == 50
MaxSampled == 3

Key1 == <<"key1">>
Key2 == <<"key2">>
Field1 == <<"field1">>
Field2 == <<"field2">>

\* The two records of the mocked response of the tests, and a nested one.
RecordOne ==
    JDict(<< <<Key1, JStr("this")>>, <<Key2, JStr("that")>>, <<KeyThree, JStr("foo")>>,
             <<Field1, JStr("I")>> >>)
RecordTwo ==
    JDict(<< <<Key1, JStr("foo")>>, <<Key2, JStr("bar")>>, <<KeyThree, JStr("spam")>>,
             <<Field2, JInt(8)>> >>)
RecordNested ==
    JDict(<< <<Key1, JStr("n")>>, <<KeyA, JDict(<< <<KeyB, JInt(3)>> >>)>> >>)

RECURSIVE SeqsOver(_, _)
\* The sequences of at most n elements of S.
SeqsOver(S, n) ==
    IF n = 0 THEN {<<>>}
    ELSE SeqsOver(S, n - 1)
         \cup {Append(s, x) : s \in {y \in SeqsOver(S, n - 1) : Len(y) = n - 1}, x \in S}

\* What the API answers the sample request with: a status and the rows the
\* records path selects.
SampleResponses ==
    {[ok |-> TRUE, records |-> s] :
        s \in SeqsOver({RecordOne, RecordTwo, JInt(1)}, MaxSampled)
              \cup {<<RecordNested, RecordOne>>}}
    \cup {[ok |-> FALSE, records |-> <<>>]}

BasicSchema ==
    [t |-> "schema", properties |-> {Key1, Key2, KeyThree, Field1, Field2},
     required |-> {Key1, Key2, KeyThree}]

\* Stream entries: the one of the tests without its own settings, the
\* second stream of test_multiple_streams, and one with a schema, params,
\* headers and a sample size of its own.
StreamEntries ==
    {<< <<"name", JStr("stream_name")>> >>,
     << <<"name", JStr("stream_name2")>>, <<"path", JStr("/path_test2")>>,
        <<"primary_keys", JList(<<JStr("key4"), JStr("key5")>>)>>,
        <<"replication_key", JStr("key6")>>,
        <<"num_inference_records", JInt(2)>>,
        <<"headers", JDict(<< <<"Accept", JStr("text/csv")>> >>)>> >>,
     << <<"name", JStr("stream_name3")>>, <<"records_path", JStr("$.rows[*]")>>,
        <<"except_keys", [t |-> "keys", v |-> {KeyA}]>>,
        <<"params", JDict(<< <<"q", JStr("y")>>, <<"size", JInt(5)>> >>)>>,
        <<"headers", JDict(<< <<"X-Own", JStr("1")>> >>)>>,
        <<"schema", BasicSchema>> >>}

\* Top-level settings: none, those of the tests, and ones with params and
\* headers that the entries partly override.
TopLevels ==
    {<<>>,
     << <<"path", JStr("/path_test")>>,
        <<"primary_keys", JList(<<JStr("key1"), JStr("key2")>>)>>,
        <<"replication_key", JStr("key3")>>,
        <<"records_path", JStr("$.records[*]")>> >>,
     << <<"path", JStr("/path_test")>>,
        <<"except_keys", [t |-> "keys", v |-> {KeyB}]>>,
        <<"params", JDict(<< <<"page", JInt(1)>>, <<"q", JStr("x")>> >>)>>,
        <<"headers", JDict(<< <<"Accept", JStr("application/json")>>,
                              <<"X-Top", JStr("1")>> >>)>> >>}

DiscoverConfigs ==
    {[auth_method |-> m, api_keys |-> JNone, aws_credentials |-> JNone, env |-> <<>>,
      oauth |-> [grant_type |-> JNone, client_id |-> JNone, client_secret |-> JNone,
                 username |-> JNone, password |-> JNone, refresh_token |-> JNone,
                 scope |-> JNone, redirect_uri |-> JNone, oauth_extras |-> JNone],
      base |-> BaseConfig, top |-> top, entries |-> entries,
      num_inference_records |-> n, store_raw_json_message |-> raw] :
        m \in {"", "no_auth", "bearer_token"},
        top \in TopLevels,
        entries \in SeqsOver(StreamEntries, MaxStreams) \ {<<>>},
        n \in {1, DefaultNumInferenceRecords},
        raw \in {JNone, JBool(TRUE)}}

InitDiscover ==
    /\ config = BaseConfig
    /\ stream = DynamicStream(BaseConfig)
    /\ paginator = NoPaginator
    /\ prev = NoPaginator
    /\ pc = "discover"
    /\ requests = <<>>
    /\ pages = <<>>
    /\ emitted = <<>>
    /\ lastResp = NoResponse
    /\ err = "none"
    /\ ret = Ok(JNone)
    /\ arg \in {[fn |-> "discover_streams", response |-> r] : r \in SampleResponses}
    /\ tap \in {NewTap(c) : c \in DiscoverConfigs}
    /\ streams = <<>>
    /\ heap = <<>>
    /\ http = <<>>

\* The entry the loop of discover_streams is at.
Entry == tap.config.entries[Len(streams) + 1]

Discovering ==
    /\ pc = "discover"
    /\ arg.fn = "discover_streams"
    /\ Len(streams) < Len(tap.config.entries)

\* One iteration of the loop of discover_streams for an entry without a
\* schema: get_schema obtains the authenticator, sends the sample request
\* with the merged params and headers, and infers the schema; what it
\* raises ends discover_streams.
DiscoverInferred ==
    /\ Discovering
    /\ ~HasKey(Entry, "schema")
    /\ \E r \in {get_schema(tap, heap, http, IF arg.response.ok THEN "ok" ELSE "fatal")} :
       \E s \in {IF r.ok
                 THEN schema_of(r.self, arg.response,
                                resolve(r.self, Entry, "except_keys",
                                        [t |-> "keys", v |-> {}]).v,
                                dict_get(Entry, "num_inference_records",
                                         JInt(r.self.config.num_inference_records)).v)
                 ELSE Raise(r.err)} :
           /\ tap' = r.self
           /\ heap' = r.heap
           /\ http' = r.http
           /\ IF s.ok
              THEN /\ streams' = Append(streams,
                        discovered_stream(r.self, Entry, merge(r.self, Entry, "params"),
                            headers_updated(r.self, r.heap, merge(r.self, Entry, "headers")),
                            s.val.schema, s.val.objects))
                   /\ UNCHANGED <<pc, err>>
              ELSE /\ pc' = "error"
                   /\ err' = s.err
                   /\ streams' = streams
    /\ UNCHANGED <<config, stream, paginator, prev, requests, pages, emitted, lastResp, ret>>
    /\ UNCHANGED arg

\* One iteration for an entry with a schema in the configuration: no
\* request is made.
DiscoverConfigured ==
    /\ Discovering
    /\ HasKey(Entry, "schema")
    /\ streams' = Append(streams,
            discovered_stream(tap, Entry, merge(tap, Entry, "params"),
                              merge(tap, Entry, "headers"),
                              to_schema(add_schema(Lookup(Entry, "schema"))), <<>>))
    /\ UNCHANGED <<config, stream, paginator, prev, pc, requests, pages, emitted, lastResp,
                   err, ret>>
    /\ UNCHANGED <<arg, tap, heap, http>>

\* discover_streams returns the list of streams.
ReturnStreams ==
    /\ pc = "discover"
    /\ arg.fn = "discover_streams"
    /\ Len(streams) = Len(tap.config.entries)
    /\ pc' = "discovered"
    /\ ret' = Ok(streams)
    /\ UNCHANGED <<config, stream, paginator, prev, requests, pages, emitted, lastResp, err>>
    /\ UNCHANGED runVars

NextDiscover == DiscoverInferred \/ DiscoverConfigured \/ ReturnStreams

SpecDiscover == InitDiscover /\ [][NextDiscover]_vars

\* The streams discover_streams has built whose schema was inferred.
Inferred(i) == ~HasKey(tap.config.entries[i], "schema")

\* num_inference_records as resolved for entry i.
InferenceRecords(i) ==
    dict_get(tap.config.entries[i], "num_inference_records",
             JInt(tap.config.num_inference_records)).v

\* The flattened records the builder of stream i was fed.
RecordsFed(i) ==
    SelectSeq(streams[i].sampled, LAMBDA o : o # RawJsonObject)

\* C33: schema inference feeds at most num_inference_records records into
\* the schema builder, however many the sampled response contains.
C33_AtMostNRecordsFed ==
    \A i \in 1..Len(streams) :
        Inferred(i) => Len(RecordsFed(i)) <= InferenceRecords(i)


\* The fields of the flattened records stream i was inferred from: those
\* every record has, and those any record has.
FieldsOfEvery(i) ==
    {k \in Keys(RecordsFed(i)[1].v) :
        \A j \in 1..Len(RecordsFed(i)) : k \in Keys(RecordsFed(i)[j].v)}

FieldsOfAny(i) ==
    UNION {Keys(RecordsFed(i)[j].v) : j \in 1..Len(RecordsFed(i))}

\* C34: the required list of an inferred schema is exactly the flattened
\* fields present in every sampled record and its properties are the fields
\* of all sampled records together, whatever the tap configuration, with
\* store_raw_json_message enabled too.
C34_RequiredIsCommonFields ==
    \A i \in 1..Len(streams) :
        Inferred(i) /\ RecordsFed(i) # <<>> =>
            /\ streams[i].schema.required = FieldsOfEvery(i)
            /\ streams[i].schema.properties = FieldsOfAny(i)


\* discover_streams has ended with the error get_schema raised for the
\* entry it was at.
DiscoveryFailed == pc = "error" /\ arg.fn = "discover_streams"

\* C35: a schema-inference failure (a non-OK sample response, or a sampled
\* record that is no object) is fatal for that stream only: every other
\* configured stream is still discovered.
C35_OtherStreamsStillDiscovered ==
    DiscoveryFailed =>
        \A i \in 1..Len(tap.config.entries) :
            i # Len(streams) + 1 =>
                \E j \in 1..Len(streams) :
                    streams[j].name = Lookup(tap.config.entries[i], "name")


\* discover_streams has returned its list.
Discovered == pc = "discovered" /\ arg.fn = "discover_streams"

\* The value of setting k of stream i is the entry's when the entry has
\* one, the top-level one otherwise.
StreamLevelFirst(i, k) ==
    IF HasKey(tap.config.entries[i], k)
    THEN ret.val[i][k] = Lookup(tap.config.entries[i], k)
    ELSE HasKey(tap.config.top, k) => ret.val[i][k] = Lookup(tap.config.top, k)

\* The dict of stream i under k has the keys of the two levels and no
\* other, each with the entry's value if the entry has the key.
KeyWiseMerge(i, k) ==
    LET top == dict_get(tap.config.top, k, JDict(<<>>)).v
        own == dict_get(tap.config.entries[i], k, JDict(<<>>)).v
    IN  /\ Keys(ret.val[i][k]) = Keys(top) \cup Keys(own)
        /\ \A key \in Keys(ret.val[i][k]) :
              Lookup(ret.val[i][k], key)
                  = IF HasKey(own, key) THEN Lookup(own, key) ELSE Lookup(top, key)

\* C36: discover_streams returns one stream per configured entry, in
\* configuration order; path, records_path, primary_keys, replication_key
\* and except_keys are the stream-level value when present and the
\* top-level value otherwise; params and headers are the key-wise merge of
\* the two levels, the stream-level value winning.
C36_StreamsResolved ==
    Discovered =>
        /\ Len(ret.val) = Len(tap.config.entries)
        /\ \A i \in 1..Len(ret.val) :
              /\ ret.val[i].name = Lookup(tap.config.entries[i], "name")
              /\ \A k \in {"path", "records_path", "primary_keys", "replication_key",
                           "except_keys"} : StreamLevelFirst(i, k)
              /\ KeyWiseMerge(i, "params")
              /\ KeyWiseMerge(i, "headers")


\* C37: when an OAuth token is found expired the authenticator is refreshed
\* in place: over every step of a run, whatever requests and expiries
\* happen, a tap or stream that holds an authenticator holds the same
\* instance afterwards; it is never replaced by a newly constructed one.
C37_AuthenticatorKept ==
    [][/\ tap._authenticator # 0 => tap'._authenticator = tap._authenticator
       /\ \A i \in 1..Len(streams) :
             (i <= Len(streams') /\ streams[i]._authenticator # 0) =>
                 streams'[i]._authenticator = streams[i]._authenticator]_vars


\* C38: all streams of a run share the tap's cached authenticator: once
\* discovery is over, every stream that has used its authenticator holds
\* the instance the tap holds, and with oauth every token of the run was
\* requested for that one instance, whether the schemas were inferred or
\* configured.
C38_SharedAuthenticator ==
    (Running /\ pc \in {"sync", "done"}) =>
        /\ \A i \in 1..Len(streams) :
              streams[i].calls >= 1 =>
                  /\ tap._authenticator # 0
                  /\ streams[i]._authenticator = tap._authenticator
        /\ \A k \in DOMAIN http :
              http[k].op = "POST" => http[k].instance = tap._authenticator


\* The first request of a run of the stream as __init__ left it.
FirstRequest == prepare_request(self0, build_params(self0, arg.context, JNone).ret.val)

\* C39: the configured settings of a stream do not change after
\* construction: whatever parameter-building calls were made, in any style,
\* the request path, the static params and the static headers are those of
\* construction, and a stream restarted after a run issues the first
\* request of the original run.
C39_SettingsImmutable ==
    arg.fn = "get_url_params" =>
        /\ stream.path = self0.path
        /\ stream.params = self0.params
        /\ stream.headers = self0.headers
        /\ (pc = "restarted" /\ ret.ok) => requests[Len(requests)] = FirstRequest


\* What flatten writes for the i-th emitted node: the serialisation of an
\* excepted node or an array, the value itself otherwise.
WrittenFor(i) ==
    IF ArgEmitted[i].excepted \/ ArgEmitted[i].value.t = "list"
    THEN Serialized(ArgEmitted[i].value)
    ELSE ArgEmitted[i].value

\* The emitted node visited last among those with the key of the i-th.
LastWithKey(i) ==
    CHOOSE j \in 1..Len(ArgEmitted) :
        /\ LeafKey(ArgEmitted[j].path) = LeafKey(ArgEmitted[i].path)
        /\ \A n \in 1..Len(ArgEmitted) :
              LeafKey(ArgEmitted[n].path) = LeafKey(ArgEmitted[i].path) => n <= j

\* Every key of the output is there once and holds what was written for
\* the node visited last among those that map to it.
LastWriteWins ==
    /\ \A m, n \in 1..Len(ret.val.v) : ret.val.v[m][1] = ret.val.v[n][1] => m = n
    /\ \A i \in 1..Len(ArgEmitted) :
          /\ HasKey(ReturnedEntries, LeafKey(ArgEmitted[i].path))
          /\ Lookup(ReturnedEntries, LeafKey(ArgEmitted[i].path))
                = WrittenFor(LastWithKey(i))

\* C40 as claimed: each output key is written once per visited leaf and a
\* later write overwrites an earlier one, so of the input paths that map to
\* one output key the output holds the value of the path visited last; a
\* nested empty object contributes no output key at all.
C40_LastWriteWinsEmptySilent ==
    FlattenReturned =>
        /\ LastWriteWins
        /\ Keys(ReturnedEntries)
              = {LeafKey(ArgEmitted[i].path) :
                    i \in {n \in 1..Len(ArgEmitted) : ArgEmitted[n].value # JDict(<<>>)}}

\* C40 amended: of the input paths that map to one output key the output
\* holds what was written for the path visited last, each key once; the
\* keys of the output are those of the emitted nodes, so a nested empty
\* object contributes no key unless its joined path is in except_keys, and
\* then its key holds the serialisation of the empty object.
C40_LastWriteWinsEmptyUnlessExcepted ==
    FlattenReturned =>
        /\ LastWriteWins
        /\ Keys(ReturnedEntries) = EmittedKeys

\* "a-b" and "a.b" both map to a_b: the output holds the value of "a.b",
\* visited last, at the place of the first write.
C40_Witness ==
    /\ FlattenReturned
    /\ arg.obj = JDict(<< <<KeyADashB, JInt(1)>>, <<KeyADotB, JStr("x")>> >>)
    /\ arg.except_keys = {}
    /\ ~arg.store_raw_json_message
    /\ ret.val = JDict(<< <<KeyA_B, JStr("x")>> >>)

\* A nested empty object beside a leaf leaves no key.
C40_WitnessEmpty ==
    /\ FlattenReturned
    /\ arg.obj = JDict(<< <<KeyA, JDict(<<>>)>>, <<KeyA_B, JInt(1)>> >>)
    /\ arg.except_keys = {}
    /\ ~arg.store_raw_json_message
    /\ ret.val = JDict(<< <<KeyA_B, JInt(1)>> >>)

\* An excepted empty object is in the output, serialised.
C40_WitnessExcepted ==
    /\ FlattenReturned
    /\ arg.obj = JDict(<< <<KeyA_B, JDict(<<>>)>> >>)
    /\ arg.except_keys = {KeyA_B}
    /\ ~arg.store_raw_json_message
    /\ ret.val = JDict(<< <<KeyA_B, Serialized(JDict(<<>>))>> >>)

=============================================================================
